---- MODULE Spec2Model ----
(***************************************************************************)
(* A model of src/util/address.rs: witness versions, address payloads,     *)
(* serialization prefixes, text rendering and parsing of addresses, and    *)
(* the classification helpers.  Every operation of the file is a pure      *)
(* function; the state machine below applies the operations to inputs      *)
(* drawn from bounded sets and records what they return.                   *)
(***************************************************************************)
EXTENDS Integers, Sequences, FiniteSets, TLC

VARIABLES made, text, parsed, res

vars == <<made, text, parsed, res>>

(***************************************************************************)
(* Bounds of the model.                                                    *)
(***************************************************************************)
\* Longest witness program the inputs hold (one more than the 40 allowed).
MaxProgLen == 41
\* Number of distinct public keys the inputs hold.
NumKeys == 2

(***************************************************************************)
(* Program constants.                                                      *)
(***************************************************************************)
MAX_SCRIPT_ELEMENT_SIZE == 520

BITCOIN_PUBKEY_ADDRESS_PREFIX_MAIN == 0
BITCOIN_SCRIPT_ADDRESS_PREFIX_MAIN == 5
BITCOIN_PUBKEY_ADDRESS_PREFIX_TEST == 111
BITCOIN_SCRIPT_ADDRESS_PREFIX_TEST == 196
DOGECOIN_PUBKEY_ADDRESS_PREFIX_MAIN == 30
DOGECOIN_SCRIPT_ADDRESS_PREFIX_MAIN == 22
DOGECOIN_PUBKEY_ADDRESS_PREFIX_TEST == 113
DOGECOIN_SCRIPT_ADDRESS_PREFIX_TEST == 196
LITECOIN_PUBKEY_ADDRESS_PREFIX_MAIN == 48
LITECOIN_SCRIPT_ADDRESS_PREFIX_MAIN == 50
LITECOIN_PUBKEY_ADDRESS_PREFIX_TEST == 111
LITECOIN_SCRIPT_ADDRESS_PREFIX_TEST == 58
STRATIS_PUBKEY_ADDRESS_PREFIX_MAIN == 75
STRATIS_SCRIPT_ADDRESS_PREFIX_MAIN == 140
STRATIS_PUBKEY_ADDRESS_PREFIX_TEST == 120
STRATIS_SCRIPT_ADDRESS_PREFIX_TEST == 127

\* Script opcodes, as bytes.
OP_PUSHBYTES_0 == 0
OP_PUSHBYTES_2 == 2
OP_PUSHBYTES_20 == 20
OP_PUSHBYTES_32 == 32
OP_PUSHBYTES_40 == 40
OP_PUSHDATA1 == 76
OP_PUSHNUM_1 == 81
OP_PUSHNUM_16 == 96
OP_DUP == 118
OP_EQUAL == 135
OP_EQUALVERIFY == 136
OP_HASH160 == 169
OP_CHECKSIG == 172

(***************************************************************************)
(* Results: Rust's Result<T, Error> and Option<T>.                         *)
(***************************************************************************)
Ok(v) == [ok |-> TRUE, val |-> v]

Err(e) == [ok |-> FALSE, err |-> e]

None == [some |-> FALSE]

Some(v) == [some |-> TRUE, val |-> v]

\* The variants of enum Error.
Base58Error(inner) == [e |-> "Base58", inner |-> inner]

Bech32Error(inner) == [e |-> "Bech32", inner |-> inner]

EmptyBech32Payload == [e |-> "EmptyBech32Payload"]

InvalidBech32Variant(expected, found) == [e |-> "InvalidBech32Variant", expected |-> expected, found |-> found]

InvalidWitnessVersion(n) == [e |-> "InvalidWitnessVersion", n |-> n]

MalformedWitnessVersion == [e |-> "MalformedWitnessVersion"]

InvalidWitnessProgramLength(n) == [e |-> "InvalidWitnessProgramLength", n |-> n]

InvalidSegwitV0ProgramLength(n) == [e |-> "InvalidSegwitV0ProgramLength", n |-> n]

UncompressedPubkey == [e |-> "UncompressedPubkey"]

ExcessiveScriptSize == [e |-> "ExcessiveScriptSize"]

UnrecognizedScript == [e |-> "UnrecognizedScript"]

\* The variants of base58::Error the parser returns itself.
InvalidLength(n) == [b58 |-> "InvalidLength", n |-> n]

InvalidAddressVersion(b) == [b58 |-> "InvalidAddressVersion", n |-> b]

\* The errors of the Base58 decoder itself (a bad character, a bad checksum,
\* too short an input).
Base58Decode == [b58 |-> "Decode"]

\* A panic: the call does not return.  It is no Ok and carries no error.
Panic(why) == [ok |-> FALSE, panic |-> why]

(***************************************************************************)
(* Networks and blockchains.                                               *)
(***************************************************************************)
Network == {"Bitcoin", "Testnet", "Signet", "Regtest"}

Blockchain == {"Bitcoin", "Dogecoin", "Litecoin", "Stratis"}

\* Network's Display: the lower-case name.
NetworkDisplay(network) ==
  CASE network = "Bitcoin" -> "bitcoin"
    [] network = "Testnet" -> "testnet"
    [] network = "Signet" -> "signet"
    [] network = "Regtest" -> "regtest"

\* Blockchain's Display.
BlockchainDisplay(chain) ==
  CASE chain = "Bitcoin" -> "Bitcoin"
    [] chain = "Dogecoin" -> "Dogecoin"
    [] chain = "Litecoin" -> "Litecoin"
    [] chain = "Stratis" -> "Stratis"

(***************************************************************************)
(* Bytes, and the hash primitives (external: a digest is modelled as a     *)
(* deterministic function of its input to a byte string of the digest's    *)
(* length).                                                                *)
(***************************************************************************)
Fill(b, n) == [i \in 1..n |-> b]

Digest(bytes, n) ==
  LET ends == IF bytes = <<>> THEN 0 ELSE bytes[1] + 3 * bytes[Len(bytes)]
  IN [i \in 1..n |-> (Len(bytes) * 31 + ends + 7 * i) % 256]

Hash160(bytes) == Digest(bytes, 20)

Sha256(bytes) == Digest(bytes, 32)

(***************************************************************************)
(* WitnessVersion: the enum is repr(u8), V0 = 0 .. V16 = 16.               *)
(***************************************************************************)
WitnessVersion == 0..16

V0 == 0

V1 == 1

WitnessVersion_to_num(version) == version

\* A variant rule that asks for Bech32m of every version, V0 included.
bech32_variant_always_bech32m(version) == "Bech32m"

\* WitnessVersion::bech32_variant
bech32_variant(version) == IF version = V0 THEN "Bech32" ELSE "Bech32m"

\* A conversion whose last accepted number is 15.
WitnessVersion_try_from_u8_to_15(no) ==
  IF no \in 0..15 THEN Ok(no) ELSE Err(InvalidWitnessVersion(no))

\* impl TryFrom<u8> for WitnessVersion
WitnessVersion_try_from_u8(no) ==
  IF no \in 0..16 THEN Ok(no) ELSE Err(InvalidWitnessVersion(no))

\* bech32::u5::to_u8: the value of the symbol, 0..31.
u5_to_u8(value) == value

\* impl TryFrom<bech32::u5> for WitnessVersion
WitnessVersion_try_from_u5(value) == WitnessVersion_try_from_u8(u5_to_u8(value))

\* An opcode conversion whose numeric range runs one opcode past
\* OP_PUSHNUM_16.
WitnessVersion_try_from_opcode_past_16(opcode) ==
  IF opcode = 0 THEN Ok(V0)
  ELSE IF opcode >= OP_PUSHNUM_1 /\ opcode <= OP_PUSHNUM_16 + 1
       THEN WitnessVersion_try_from_u8(opcode - OP_PUSHNUM_1 + 1)
       ELSE Err(MalformedWitnessVersion)

\* impl TryFrom<opcodes::All> for WitnessVersion
WitnessVersion_try_from_opcode(opcode) ==
  IF opcode = 0 THEN Ok(V0)
  ELSE IF opcode >= OP_PUSHNUM_1 /\ opcode <= OP_PUSHNUM_16
       THEN WitnessVersion_try_from_u8(opcode - OP_PUSHNUM_1 + 1)
       ELSE Err(MalformedWitnessVersion)

\* An instruction conversion where a data push of one byte counts as a
\* number.
WitnessVersion_try_from_instruction_reading_byte(instruction) ==
  IF instruction.kind = "Op" THEN WitnessVersion_try_from_opcode(instruction.op)
  ELSE IF instruction.bytes = <<>> THEN Ok(V0)
  ELSE IF Len(instruction.bytes) = 1 THEN WitnessVersion_try_from_u8(instruction.bytes[1])
  ELSE Err(MalformedWitnessVersion)

\* impl TryFrom<Instruction> for WitnessVersion; an instruction is
\* Instruction::Op(op) or Instruction::PushBytes(bytes).
WitnessVersion_try_from_instruction(instruction) ==
  IF instruction.kind = "Op" THEN WitnessVersion_try_from_opcode(instruction.op)
  ELSE IF instruction.bytes = <<>> THEN Ok(V0)
  ELSE Err(MalformedWitnessVersion)

\* An opcode conversion that is one too high from V1 on.
WitnessVersion_to_opcode_off_by_one(version) ==
  IF version = V0 THEN OP_PUSHBYTES_0
  ELSE OP_PUSHNUM_1 + WitnessVersion_to_num(version)

\* impl From<WitnessVersion> for opcodes::All
WitnessVersion_to_opcode(version) ==
  IF version = V0 THEN OP_PUSHBYTES_0
  ELSE OP_PUSHNUM_1 + WitnessVersion_to_num(version) - 1

(***************************************************************************)
(* Scripts: byte strings.  The builder and the shape tests of              *)
(* blockdata::script.                                                      *)
(***************************************************************************)
\* script::Builder::push_slice
Builder_push_slice(data) ==
  IF Len(data) < OP_PUSHDATA1 THEN <<Len(data)>> \o data
  ELSE <<OP_PUSHDATA1, Len(data)>> \o data

\* Script::new_p2pkh
Script_new_p2pkh(hash) ==
  <<OP_DUP, OP_HASH160>> \o Builder_push_slice(hash) \o <<OP_EQUALVERIFY, OP_CHECKSIG>>

\* Script::new_p2sh
Script_new_p2sh(hash) ==
  <<OP_HASH160>> \o Builder_push_slice(hash) \o <<OP_EQUAL>>

\* Script::new_witness_program
Script_new_witness_program(version, program) ==
  <<WitnessVersion_to_opcode(version)>> \o Builder_push_slice(program)

\* Script::is_p2pkh
Script_is_p2pkh(script) ==
  /\ Len(script) = 25
  /\ script[1] = OP_DUP
  /\ script[2] = OP_HASH160
  /\ script[3] = OP_PUSHBYTES_20
  /\ script[24] = OP_EQUALVERIFY
  /\ script[25] = OP_CHECKSIG

\* Script::is_p2sh
Script_is_p2sh(script) ==
  /\ Len(script) = 23
  /\ script[1] = OP_HASH160
  /\ script[2] = OP_PUSHBYTES_20
  /\ script[23] = OP_EQUAL

\* Script::is_witness_program
Script_is_witness_program(script) ==
  /\ Len(script) >= 4
  /\ Len(script) <= 42
  /\ WitnessVersion_try_from_opcode(script[1]).ok
  /\ script[2] >= OP_PUSHBYTES_2
  /\ script[2] <= OP_PUSHBYTES_40
  /\ Len(script) - 2 = script[2]

\* Script::witness_version
Script_witness_version(script) ==
  IF script = <<>> THEN None
  ELSE LET v == WitnessVersion_try_from_opcode(script[1])
       IN IF v.ok THEN Some(v.val) ELSE None

\* Script::is_v0_p2wpkh
Script_is_v0_p2wpkh(script) ==
  /\ Len(script) = 22
  /\ Script_witness_version(script) = Some(V0)
  /\ script[2] = OP_PUSHBYTES_20

\* Script::is_v0_p2wsh
Script_is_v0_p2wsh(script) ==
  /\ Len(script) = 34
  /\ Script_witness_version(script) = Some(V0)
  /\ script[2] = OP_PUSHBYTES_32

(***************************************************************************)
(* Payload.                                                                *)
(***************************************************************************)
PubkeyHash(hash) == [kind |-> "PubkeyHash", hash |-> hash]

ScriptHash(hash) == [kind |-> "ScriptHash", hash |-> hash]

WitnessProgram(version, program) ==
  [kind |-> "WitnessProgram", version |-> version, program |-> program]

\* A from_script without the check of the V0 program length.
Payload_from_script_any_v0(script) ==
  IF Script_is_p2pkh(script) THEN Ok(PubkeyHash(SubSeq(script, 4, 23)))
  ELSE IF Script_is_p2sh(script) THEN Ok(ScriptHash(SubSeq(script, 3, 22)))
  ELSE IF Script_is_witness_program(script)
       THEN LET v == WitnessVersion_try_from_opcode(script[1])
            IN IF v.ok
               THEN Ok(WitnessProgram(v.val, SubSeq(script, 3, Len(script))))
               ELSE Err(v.err)
       ELSE Err(UnrecognizedScript)

\* Payload::from_script
Payload_from_script(script) ==
  IF Script_is_p2pkh(script) THEN Ok(PubkeyHash(SubSeq(script, 4, 23)))
  ELSE IF Script_is_p2sh(script) THEN Ok(ScriptHash(SubSeq(script, 3, 22)))
  ELSE IF Script_is_witness_program(script)
       THEN IF /\ Script_witness_version(script) = Some(V0)
               /\ ~(Script_is_v0_p2wpkh(script) \/ Script_is_v0_p2wsh(script))
            THEN Err(InvalidSegwitV0ProgramLength(Len(script) - 2))
            ELSE LET v == WitnessVersion_try_from_opcode(script[1])
                 IN IF v.ok
                    THEN Ok(WitnessProgram(v.val, SubSeq(script, 3, Len(script))))
                    ELSE Err(v.err)
       ELSE Err(UnrecognizedScript)

\* A script_pubkey that writes a key hash as a P2SH script.
Payload_script_pubkey_p2sh_for_hashes(payload) ==
  CASE payload.kind \in {"PubkeyHash", "ScriptHash"} -> Script_new_p2sh(payload.hash)
    [] payload.kind = "WitnessProgram" ->
         Script_new_witness_program(payload.version, payload.program)

\* Payload::script_pubkey
Payload_script_pubkey(payload) ==
  CASE payload.kind = "PubkeyHash" -> Script_new_p2pkh(payload.hash)
    [] payload.kind = "ScriptHash" -> Script_new_p2sh(payload.hash)
    [] payload.kind = "WitnessProgram" ->
         Script_new_witness_program(payload.version, payload.program)

\* Public keys: PublicKey { compressed, inner }; the key material is a number.
PublicKey == [compressed : BOOLEAN, inner : 1..NumKeys]

\* PublicKey::to_bytes: 33 bytes when compressed, 65 otherwise.
PublicKey_to_bytes(pk) ==
  IF pk.compressed THEN <<2>> \o Fill(pk.inner, 32) ELSE <<4>> \o Fill(pk.inner, 64)

\* PublicKey::pubkey_hash
PublicKey_pubkey_hash(pk) == Hash160(PublicKey_to_bytes(pk))

\* PublicKey::wpubkey_hash: only a compressed key has one.
PublicKey_wpubkey_hash(pk) ==
  IF pk.compressed THEN Some(Hash160(PublicKey_to_bytes(pk))) ELSE None

\* XOnlyPublicKey::serialize: 32 bytes.
XOnlyPublicKey_serialize(key) == Fill(key, 32)

\* TapTweak::tap_tweak: the output key, as its 32-byte serialization.
tap_tweak(internal_key, merkle_root) ==
  Digest(XOnlyPublicKey_serialize(internal_key) \o merkle_root, 32)

\* Payload::p2pkh
Payload_p2pkh(pk) == PubkeyHash(PublicKey_pubkey_hash(pk))

\* A size check that rejects a script of exactly the limit.
Payload_p2sh_rejecting_limit(script) ==
  IF Len(script) >= MAX_SCRIPT_ELEMENT_SIZE THEN Err(ExcessiveScriptSize)
  ELSE Ok(ScriptHash(Hash160(script)))

\* Payload::p2sh
Payload_p2sh(script) ==
  IF Len(script) > MAX_SCRIPT_ELEMENT_SIZE THEN Err(ExcessiveScriptSize)
  ELSE Ok(ScriptHash(Hash160(script)))

\* A p2wpkh that takes the hash of any key, compressed or not.
Payload_p2wpkh_any_key(pk) == Ok(WitnessProgram(V0, PublicKey_pubkey_hash(pk)))

\* Payload::p2wpkh
Payload_p2wpkh(pk) ==
  LET h == PublicKey_wpubkey_hash(pk)
  IN IF h.some THEN Ok(WitnessProgram(V0, h.val)) ELSE Err(UncompressedPubkey)

\* Payload::p2shwpkh
Payload_p2shwpkh(pk) ==
  LET h == PublicKey_wpubkey_hash(pk)
  IN IF h.some
     THEN Ok(ScriptHash(Hash160(<<OP_PUSHBYTES_0>> \o Builder_push_slice(h.val))))
     ELSE Err(UncompressedPubkey)

\* Payload::p2wsh
Payload_p2wsh(script) == WitnessProgram(V0, Sha256(script))

\* Payload::p2shwsh
Payload_p2shwsh(script) ==
  ScriptHash(Hash160(<<OP_PUSHBYTES_0>> \o Builder_push_slice(Sha256(script))))

\* Payload::p2tr
Payload_p2tr(internal_key, merkle_root) ==
  WitnessProgram(V1, tap_tweak(internal_key, merkle_root))

\* Payload::p2tr_tweaked
Payload_p2tr_tweaked(output_key) ==
  WitnessProgram(V1, XOnlyPublicKey_serialize(output_key))

\* Payload::as_bytes
Payload_as_bytes(payload) ==
  IF payload.kind = "WitnessProgram" THEN payload.program ELSE payload.hash

(***************************************************************************)
(* Prefix.                                                                 *)
(***************************************************************************)
Prefix_pubkey(b) == [kind |-> "Pubkey", b |-> b]

Prefix_script(b) == [kind |-> "Script", b |-> b]

Prefix_segwit(hrp) == [kind |-> "Segwit", hrp |-> hrp]

\* The placeholder of Prefix::from_payload for a pair without a prefix.
UnsupportedHrp(network, chain) ==
  "segwit unsupported for network/chain " \o NetworkDisplay(network) \o "/"
    \o BlockchainDisplay(chain)

\* The PubkeyHash arm with Signet counted as a main network.
PubkeyPrefixByte_signet_as_main(network, chain) ==
  CASE network \in {"Bitcoin", "Signet"} /\ chain = "Bitcoin" -> BITCOIN_PUBKEY_ADDRESS_PREFIX_MAIN
    [] network \notin {"Bitcoin", "Signet"} /\ chain = "Bitcoin" -> BITCOIN_PUBKEY_ADDRESS_PREFIX_TEST
    [] network \in {"Bitcoin", "Signet"} /\ chain = "Dogecoin" -> DOGECOIN_PUBKEY_ADDRESS_PREFIX_MAIN
    [] network \notin {"Bitcoin", "Signet"} /\ chain = "Dogecoin" -> DOGECOIN_PUBKEY_ADDRESS_PREFIX_TEST
    [] network \in {"Bitcoin", "Signet"} /\ chain = "Litecoin" -> LITECOIN_PUBKEY_ADDRESS_PREFIX_MAIN
    [] network \notin {"Bitcoin", "Signet"} /\ chain = "Litecoin" -> LITECOIN_PUBKEY_ADDRESS_PREFIX_TEST
    [] network \in {"Bitcoin", "Signet"} /\ chain = "Stratis" -> STRATIS_PUBKEY_ADDRESS_PREFIX_MAIN
    [] network \notin {"Bitcoin", "Signet"} /\ chain = "Stratis" -> STRATIS_PUBKEY_ADDRESS_PREFIX_TEST

\* Prefix::from_payload, PubkeyHash arm.
PubkeyPrefixByte(network, chain) ==
  CASE network = "Bitcoin" /\ chain = "Bitcoin" -> BITCOIN_PUBKEY_ADDRESS_PREFIX_MAIN
    [] network # "Bitcoin" /\ chain = "Bitcoin" -> BITCOIN_PUBKEY_ADDRESS_PREFIX_TEST
    [] network = "Bitcoin" /\ chain = "Dogecoin" -> DOGECOIN_PUBKEY_ADDRESS_PREFIX_MAIN
    [] network # "Bitcoin" /\ chain = "Dogecoin" -> DOGECOIN_PUBKEY_ADDRESS_PREFIX_TEST
    [] network = "Bitcoin" /\ chain = "Litecoin" -> LITECOIN_PUBKEY_ADDRESS_PREFIX_MAIN
    [] network # "Bitcoin" /\ chain = "Litecoin" -> LITECOIN_PUBKEY_ADDRESS_PREFIX_TEST
    [] network = "Bitcoin" /\ chain = "Stratis" -> STRATIS_PUBKEY_ADDRESS_PREFIX_MAIN
    [] network # "Bitcoin" /\ chain = "Stratis" -> STRATIS_PUBKEY_ADDRESS_PREFIX_TEST

\* Prefix::from_payload, ScriptHash arm.
ScriptPrefixByte(network, chain) ==
  CASE network = "Bitcoin" /\ chain = "Bitcoin" -> BITCOIN_SCRIPT_ADDRESS_PREFIX_MAIN
    [] network # "Bitcoin" /\ chain = "Bitcoin" -> BITCOIN_SCRIPT_ADDRESS_PREFIX_TEST
    [] network = "Bitcoin" /\ chain = "Dogecoin" -> DOGECOIN_SCRIPT_ADDRESS_PREFIX_MAIN
    [] network # "Bitcoin" /\ chain = "Dogecoin" -> DOGECOIN_SCRIPT_ADDRESS_PREFIX_TEST
    [] network = "Bitcoin" /\ chain = "Litecoin" -> LITECOIN_SCRIPT_ADDRESS_PREFIX_MAIN
    [] network # "Bitcoin" /\ chain = "Litecoin" -> LITECOIN_SCRIPT_ADDRESS_PREFIX_TEST
    [] network = "Bitcoin" /\ chain = "Stratis" -> STRATIS_SCRIPT_ADDRESS_PREFIX_MAIN
    [] network # "Bitcoin" /\ chain = "Stratis" -> STRATIS_SCRIPT_ADDRESS_PREFIX_TEST

\* The WitnessProgram arm with Dogecoin given Bitcoin's human-readable parts.
SegwitHrp_dogecoin_as_bitcoin(network, chain) ==
  CASE network = "Bitcoin" /\ chain \in {"Bitcoin", "Dogecoin"} -> "bc"
    [] network = "Testnet" /\ chain \in {"Bitcoin", "Dogecoin"} -> "tb"
    [] network = "Signet" /\ chain \in {"Bitcoin", "Dogecoin"} -> "tb"
    [] network = "Regtest" /\ chain \in {"Bitcoin", "Dogecoin"} -> "bcrt"
    [] network = "Bitcoin" /\ chain = "Litecoin" -> "ltc"
    [] network = "Testnet" /\ chain = "Litecoin" -> "tltc"
    [] network = "Bitcoin" /\ chain = "Stratis" -> "STRAX"
    [] network = "Testnet" /\ chain = "Stratis" -> "TSTRAX"
    [] OTHER -> UnsupportedHrp(network, chain)

\* Prefix::from_payload, WitnessProgram arm.
SegwitHrp(network, chain) ==
  CASE network = "Bitcoin" /\ chain = "Bitcoin" -> "bc"
    [] network = "Testnet" /\ chain = "Bitcoin" -> "tb"
    [] network = "Signet" /\ chain = "Bitcoin" -> "tb"
    [] network = "Regtest" /\ chain = "Bitcoin" -> "bcrt"
    [] network = "Bitcoin" /\ chain = "Litecoin" -> "ltc"
    [] network = "Testnet" /\ chain = "Litecoin" -> "tltc"
    [] network = "Bitcoin" /\ chain = "Stratis" -> "STRAX"
    [] network = "Testnet" /\ chain = "Stratis" -> "TSTRAX"
    [] OTHER -> UnsupportedHrp(network, chain)

\* A from_payload that wraps the byte of a script hash in Prefix::Pubkey.
Prefix_from_payload_pubkey_for_hashes(payload, network, chain) ==
  CASE payload.kind = "PubkeyHash" -> Prefix_pubkey(PubkeyPrefixByte(network, chain))
    [] payload.kind = "ScriptHash" -> Prefix_pubkey(ScriptPrefixByte(network, chain))
    [] payload.kind = "WitnessProgram" -> Prefix_segwit(SegwitHrp(network, chain))

\* Prefix::from_payload
Prefix_from_payload(payload, network, chain) ==
  CASE payload.kind = "PubkeyHash" -> Prefix_pubkey(PubkeyPrefixByte(network, chain))
    [] payload.kind = "ScriptHash" -> Prefix_script(ScriptPrefixByte(network, chain))
    [] payload.kind = "WitnessProgram" -> Prefix_segwit(SegwitHrp(network, chain))

(***************************************************************************)
(* Address: constructors and classification.                               *)
(***************************************************************************)
Address(payload, network, prefix) ==
  [payload |-> payload, network |-> network, prefix |-> prefix]

\* The body shared by the constructors: the prefix is looked up for the
\* payload just built.
WithPrefix(payload, network, chain) ==
  Address(payload, network, Prefix_from_payload(payload, network, chain))

\* A constructor whose payload can fail ("?" on the payload).
TryWithPrefix(payload, network, chain) ==
  IF payload.ok THEN Ok(WithPrefix(payload.val, network, chain)) ELSE Err(payload.err)

Address_p2pkh(pk, network, chain) == WithPrefix(Payload_p2pkh(pk), network, chain)

Address_p2sh(script, network, chain) == TryWithPrefix(Payload_p2sh(script), network, chain)

Address_p2wpkh(pk, network, chain) == TryWithPrefix(Payload_p2wpkh(pk), network, chain)

Address_p2shwpkh(pk, network, chain) == TryWithPrefix(Payload_p2shwpkh(pk), network, chain)

Address_p2wsh(script, network, chain) == WithPrefix(Payload_p2wsh(script), network, chain)

Address_p2shwsh(script, network, chain) == WithPrefix(Payload_p2shwsh(script), network, chain)

Address_p2tr(internal_key, merkle_root, network, chain) ==
  WithPrefix(Payload_p2tr(internal_key, merkle_root), network, chain)

Address_p2tr_tweaked(output_key, network, chain) ==
  WithPrefix(Payload_p2tr_tweaked(output_key), network, chain)

Address_from_script(script, network, chain) ==
  TryWithPrefix(Payload_from_script(script), network, chain)

\* A classification that takes every V1 program for Taproot.
Address_address_type_any_v1(address) ==
  LET p == address.payload
  IN CASE p.kind = "PubkeyHash" -> Some("P2pkh")
       [] p.kind = "ScriptHash" -> Some("P2sh")
       [] p.kind = "WitnessProgram" ->
            IF p.version = V0
            THEN IF Len(p.program) = 20 THEN Some("P2wpkh")
                 ELSE IF Len(p.program) = 32 THEN Some("P2wsh")
                 ELSE None
            ELSE IF p.version = V1 THEN Some("P2tr")
            ELSE None

\* Address::address_type
Address_address_type(address) ==
  LET p == address.payload
  IN CASE p.kind = "PubkeyHash" -> Some("P2pkh")
       [] p.kind = "ScriptHash" -> Some("P2sh")
       [] p.kind = "WitnessProgram" ->
            IF p.version = V0
            THEN IF Len(p.program) = 20 THEN Some("P2wpkh")
                 ELSE IF Len(p.program) = 32 THEN Some("P2wsh")
                 ELSE None
            ELSE IF p.version = V1 /\ Len(p.program) = 32 THEN Some("P2tr")
            ELSE None

\* Address::is_standard
Address_is_standard(address) == Address_address_type(address).some

\* A network check that asks for the very network of the address.
Address_is_valid_for_network_strict(address, network) == address.network = network

\* A network check with the legacy rule for every address type.
Address_is_valid_for_network_all_legacy(address, network) ==
  LET a == address.network
      b == network
  IN IF a = b THEN TRUE
     ELSE IF a = "Bitcoin" \/ b = "Bitcoin" THEN FALSE
     ELSE TRUE

\* Address::is_valid_for_network
Address_is_valid_for_network(address, network) ==
  LET is_legacy == Address_address_type(address) \in {Some("P2pkh"), Some("P2sh")}
      a == address.network
      b == network
  IN IF a = b THEN TRUE
     ELSE IF a = "Bitcoin" \/ b = "Bitcoin" THEN FALSE
     ELSE IF (a = "Regtest" \/ b = "Regtest") /\ ~is_legacy THEN FALSE
     ELSE TRUE

\* Address::is_related_to_xonly_pubkey
Address_is_related_to_xonly_pubkey(address, xonly_pubkey) ==
  Payload_as_bytes(address.payload) = XOnlyPublicKey_serialize(xonly_pubkey)

\* Address::script_pubkey
Address_script_pubkey(address) == Payload_script_pubkey(address.payload)

(***************************************************************************)
(* Strings.  A string is a TLA+ string; the case of the strings the model  *)
(* uses is tabulated: <<string, lower-cased, upper-cased>>.                *)
(***************************************************************************)
LowerName(name) ==
  CASE name = "Bitcoin" -> "bitcoin"
    [] name = "Dogecoin" -> "dogecoin"
    [] name = "Litecoin" -> "litecoin"
    [] name = "Stratis" -> "stratis"

UpperName(name) ==
  CASE name = "Bitcoin" -> "BITCOIN"
    [] name = "Dogecoin" -> "DOGECOIN"
    [] name = "Litecoin" -> "LITECOIN"
    [] name = "Stratis" -> "STRATIS"
    [] name = "Testnet" -> "TESTNET"
    [] name = "Signet" -> "SIGNET"
    [] name = "Regtest" -> "REGTEST"

\* The placeholder strings, as written, lower-cased and upper-cased.
UnsupportedHrpCases ==
  { << UnsupportedHrp(n, c),
       "segwit unsupported for network/chain " \o NetworkDisplay(n) \o "/" \o LowerName(c),
       "SEGWIT UNSUPPORTED FOR NETWORK/CHAIN " \o UpperName(n) \o "/" \o UpperName(c) >> :
      n \in Network, c \in Blockchain }

CaseTable ==
  { <<"bc", "bc", "BC">>, <<"BC", "bc", "BC">>, <<"Bc", "bc", "BC">>,
    <<"tb", "tb", "TB">>, <<"TB", "tb", "TB">>, <<"tB", "tb", "TB">>,
    <<"bcrt", "bcrt", "BCRT">>, <<"BCRT", "bcrt", "BCRT">>,
    <<"ltc", "ltc", "LTC">>, <<"LTC", "ltc", "LTC">>,
    <<"tltc", "tltc", "TLTC">>, <<"TLTC", "tltc", "TLTC">>,
    <<"X", "x", "X">>, <<"x", "x", "X">>,
    <<"q", "q", "Q">>, <<"Q", "q", "Q">>,
    <<"STRAX", "strax", "STRAX">>, <<"strax", "strax", "STRAX">>,
    <<"TSTRAX", "tstrax", "TSTRAX">>, <<"tstrax", "tstrax", "TSTRAX">>,
    <<"tc", "tc", "TC">>, <<"", "", "">>, <<"other", "other", "OTHER">> }
  \cup UnsupportedHrpCases
  \cup { <<t[2], t[2], t[3]>> : t \in UnsupportedHrpCases }
  \cup { <<t[3], t[2], t[3]>> : t \in UnsupportedHrpCases }

\* str::to_lowercase
ToLower(s) == (CHOOSE t \in CaseTable : t[1] = s)[2]

\* char::to_ascii_uppercase over every character, as UpperWriter writes.
ToUpper(s) == (CHOOSE t \in CaseTable : t[1] = s)[3]

HasUpper(s) == s # ToLower(s)

HasLower(s) == s # ToUpper(s)

\* A character outside 33..126: the placeholders hold spaces.
HasInvalidHrpChar(s) == \E t \in UnsupportedHrpCases : s \in {t[1], t[2], t[3]}

(***************************************************************************)
(* Texts.  The Base58Check and Bech32 codecs are external; a text is       *)
(* described by what the codecs and the prefix scan see of it.             *)
(*   form "bech32": <hrp> "1" <data symbols> <6 checksum symbols>; hrp is  *)
(*     as written, data the 5-bit symbols without the checksum, checksum   *)
(*     the variant whose constant the checksum verifies for the lower-     *)
(*     cased hrp ("bad" for neither), upper the case of the symbols.       *)
(*   form "base58": any other string; lead is what precedes its last '1'   *)
(*     (the whole string without one), nchars its length, check what       *)
(*     base58::from_check returns for it.                                  *)
(***************************************************************************)
Bech32Text(hrp, data, checksum, upper) ==
  [form |-> "bech32", hrp |-> hrp, data |-> data, checksum |-> checksum, upper |-> upper]

Base58Text(lead, nchars, check) ==
  [form |-> "base58", lead |-> lead, nchars |-> nchars, check |-> check]

\* str::len
TextLen(s) ==
  IF s.form = "bech32" THEN Len(s.hrp) + 1 + Len(s.data) + 6 ELSE s.nchars

\* The hash of a Litecoin mainnet P2PKH address whose Base58Check text is
\* LTC1hVa2pMyTB6UG2UGcV99gVam9XZ8Ks9: its only '1' follows "LTC".
LtcHash ==
  <<87, 99, 10, 223, 2, 75, 138, 162, 141, 232, 149, 107, 106, 154, 42, 18, 12, 15, 173, 111>>

\* What precedes the last '1' of the Base58Check text of data.  Of the
\* version bytes of the supported coins only 48 gives texts that can start
\* with a recognised prefix ("LTC1"); "other" stands for any other lead.
Base58Lead(data) ==
  IF data = <<LITECOIN_PUBKEY_ADDRESS_PREFIX_MAIN>> \o LtcHash THEN "LTC" ELSE "other"

\* The length of the Base58Check text of data (4 checksum bytes appended).
Base58Chars(data) == ((Len(data) + 4) * 137) \div 100 + 1

\* base58::check_encode_slice_to_fmt
base58_check_encode(data) == Base58Text(Base58Lead(data), Base58Chars(data), Ok(data))

\* base58::from_check
base58_from_check(s) ==
  IF s.form = "bech32" THEN Err(Base58Error(Base58Decode)) ELSE s.check

\* bech32::convert_bits regroups the bits of data, from bits an element
\* and most significant first, into elements of to bits.  StreamBit is bit p
\* of the input, 0 past its end; Group is the value of output element j.
StreamBit(data, from, p) ==
  IF p >= Len(data) * from THEN 0
  ELSE (data[p \div from + 1] \div (2 ^ (from - 1 - (p % from)))) % 2

RECURSIVE GroupBits(_, _, _, _)
GroupBits(data, from, p, n) ==
  IF n = 0 THEN 0
  ELSE 2 * GroupBits(data, from, p, n - 1) + StreamBit(data, from, p + n - 1)

Group(data, from, to, j) == GroupBits(data, from, (j - 1) * to, to)

\* The elements the loop pushes, then the padding: with pad the bits left
\* over are pushed with zeros after them, without pad they must be fewer
\* than from and all zero.
convert_bits(data, from, to, pad) ==
  LET nfull == (Len(data) * from) \div to
      bits == (Len(data) * from) % to
      ret == [j \in 1..nfull |-> Group(data, from, to, j)]
      last == Group(data, from, to, nfull + 1)
  IN IF pad
     THEN Ok(IF bits > 0 THEN ret \o <<last>> ELSE ret)
     ELSE IF bits >= from \/ last # 0 THEN Err(Bech32Error("InvalidPadding"))
          ELSE Ok(ret)

\* bech32::ToBase32::write_base32 for a byte string
to_base32(bytes) == convert_bits(bytes, 8, 5, TRUE).val

\* bech32::FromBase32::from_base32 for Vec<u8>
from_base32(data) == convert_bits(data, 5, 8, FALSE)

\* bech32::Bech32Writer::new, write_u5 and write_base32, then the checksum
\* on finalize: the hrp is written as given and the checksum is computed
\* over the hrp as given, so it verifies only for an hrp without upper case.
Bech32Writer_write(hrp, variant, data, alternate) ==
  Bech32Text(IF alternate THEN ToUpper(hrp) ELSE hrp, data,
             IF HasUpper(hrp) THEN "bad" ELSE variant, alternate)

\* bech32::decode
bech32_decode(s) ==
  IF s.form # "bech32" THEN Err(Bech32Error("decode"))
  ELSE IF s.hrp = "" THEN Err(Bech32Error("InvalidLength"))
  ELSE IF HasInvalidHrpChar(s.hrp) THEN Err(Bech32Error("InvalidChar"))
  ELSE IF \/ HasLower(s.hrp) /\ HasUpper(s.hrp)
          \/ HasLower(s.hrp) /\ s.upper
          \/ HasUpper(s.hrp) /\ ~s.upper
       THEN Err(Bech32Error("MixedCase"))
  ELSE IF s.checksum = "bad" THEN Err(Bech32Error("InvalidChecksum"))
  ELSE Ok([hrp |-> ToLower(s.hrp), payload |-> s.data, variant |-> s.checksum])

(***************************************************************************)
(* Rendering.                                                              *)
(***************************************************************************)
\* A pubkey_prefix that takes the byte of the network, whatever the address
\* carries.
Address_pubkey_prefix_of_network(address) ==
  IF address.network = "Bitcoin" THEN BITCOIN_PUBKEY_ADDRESS_PREFIX_MAIN
  ELSE BITCOIN_PUBKEY_ADDRESS_PREFIX_TEST

\* Address::pubkey_prefix
Address_pubkey_prefix(address) ==
  IF address.prefix.kind = "Pubkey" THEN address.prefix.b
  ELSE IF address.network = "Bitcoin" THEN BITCOIN_PUBKEY_ADDRESS_PREFIX_MAIN
  ELSE BITCOIN_PUBKEY_ADDRESS_PREFIX_TEST

\* A script_prefix that takes the byte of any stored prefix that has one.
Address_script_prefix_of_any_byte(address) ==
  IF address.prefix.kind \in {"Pubkey", "Script"} THEN address.prefix.b
  ELSE IF address.network = "Bitcoin" THEN BITCOIN_SCRIPT_ADDRESS_PREFIX_MAIN
  ELSE BITCOIN_SCRIPT_ADDRESS_PREFIX_TEST

\* Address::script_prefix
Address_script_prefix(address) ==
  IF address.prefix.kind = "Script" THEN address.prefix.b
  ELSE IF address.network = "Bitcoin" THEN BITCOIN_SCRIPT_ADDRESS_PREFIX_MAIN
  ELSE BITCOIN_SCRIPT_ADDRESS_PREFIX_TEST

\* A segwit_prefix that takes the prefix of the network, whatever the
\* address carries.
Address_segwit_prefix_of_network(address) ==
  CASE address.network = "Bitcoin" -> "bc"
    [] address.network \in {"Testnet", "Signet"} -> "tb"
    [] address.network = "Regtest" -> "bcrt"

\* Address::segwit_prefix
Address_segwit_prefix(address) ==
  IF address.prefix.kind = "Segwit" THEN address.prefix.hrp
  ELSE CASE address.network = "Bitcoin" -> "bc"
         [] address.network \in {"Testnet", "Signet"} -> "tb"
         [] address.network = "Regtest" -> "bcrt"

\* impl Display for AddressEncoding
AddressEncoding_fmt(payload, p2pkh_prefix, p2sh_prefix, bech32_hrp, alternate) ==
  CASE payload.kind = "PubkeyHash" -> base58_check_encode(<<p2pkh_prefix>> \o payload.hash)
    [] payload.kind = "ScriptHash" -> base58_check_encode(<<p2sh_prefix>> \o payload.hash)
    [] payload.kind = "WitnessProgram" ->
         Bech32Writer_write(bech32_hrp, bech32_variant(payload.version),
                            <<WitnessVersion_to_num(payload.version)>> \o to_base32(payload.program),
                            alternate)

\* impl Display for Address; alternate is the "{:#}" flag.
Address_fmt(address, alternate) ==
  AddressEncoding_fmt(address.payload, Address_pubkey_prefix(address),
                      Address_script_prefix(address), Address_segwit_prefix(address), alternate)

\* A URI: the schema, ':' and the text of the address.
Uri(schema, address) == [schema |-> schema, address |-> address]

\* A to_qr_uri that formats the address with "{}".
Address_to_qr_uri_plain(address) ==
  Uri(IF address.payload.kind = "WitnessProgram" THEN "BITCOIN" ELSE "bitcoin",
      Address_fmt(address, FALSE))

\* Address::to_qr_uri
Address_to_qr_uri(address) ==
  Uri(IF address.payload.kind = "WitnessProgram" THEN "BITCOIN" ELSE "bitcoin",
      Address_fmt(address, TRUE))

(***************************************************************************)
(* Parsing.                                                                *)
(***************************************************************************)
\* find_bech32_prefix: a Bech32 symbol is never '1', so the last '1' of a
\* text of form "bech32" is its separator.
find_bech32_prefix(s) == IF s.form = "bech32" THEN s.hrp ELSE s.lead

\* The prefix match of from_str with the case of the prefix ignored.
bech32_network_ignoring_case(s) ==
  LET pre == ToLower(find_bech32_prefix(s))
  IN CASE pre \in {"bc", "ltc", "x"} -> Some("Bitcoin")
       [] pre \in {"tb", "tltc", "q"} -> Some("Testnet")
       [] pre \in {"bcrt"} -> Some("Regtest")
       [] OTHER -> None

\* The match on the prefix at the head of from_str.
bech32_network(s) ==
  LET pre == find_bech32_prefix(s)
  IN CASE pre \in {"bc", "BC", "ltc", "LTC", "X"} -> Some("Bitcoin")
       [] pre \in {"tb", "TB", "tltc", "TLTC", "q"} -> Some("Testnet")
       [] pre \in {"bcrt", "BCRT"} -> Some("Regtest")
       [] OTHER -> None

\* A length check that lets a program of 41 bytes through.
witness_program_length_invalid_above_41(len) == len < 2 \/ len > 41

\* from_str: "program.len() < 2 || program.len() > 40".
witness_program_length_invalid(len) == len < 2 \/ len > 40

\* A V0 check that refuses only the programs shorter than 20 bytes.
segwit_v0_length_invalid_below_20(version, len) == version = V0 /\ len < 20

\* from_str: the "Specific segwit v0 check".
segwit_v0_length_invalid(version, len) == version = V0 /\ (len # 20 /\ len # 32)

\* A test for emptiness that never sees an empty payload.
payload_is_empty_never(payload) == FALSE

\* from_str: payload.is_empty()
payload_is_empty(payload) == payload = <<>>

\* slice::split_at(mid): panics when mid is past the end of the slice.
split_at(slice, mid) ==
  IF mid > Len(slice) THEN Panic("split_at: mid > len")
  ELSE Ok(<<SubSeq(slice, 1, mid), SubSeq(slice, mid + 1, Len(slice))>>)

\* from_str, the Bech32 branch.
\* The Bech32 branch with the variant check ahead of the two length checks.
from_str_bech32_variant_first(s, network) ==
  LET d == bech32_decode(s)
  IN IF ~d.ok THEN Err(d.err)
     ELSE IF payload_is_empty(d.val.payload) THEN Err(EmptyBech32Payload)
     ELSE LET split == split_at(d.val.payload, 1)
              version == WitnessVersion_try_from_u5(split.val[1][1])
              program == from_base32(split.val[2])
          IN IF ~split.ok THEN split
             ELSE IF ~version.ok THEN Err(version.err)
             ELSE IF ~program.ok THEN Err(program.err)
             ELSE IF bech32_variant(version.val) # d.val.variant
                  THEN Err(InvalidBech32Variant(bech32_variant(version.val), d.val.variant))
             ELSE IF witness_program_length_invalid(Len(program.val))
                  THEN Err(InvalidWitnessProgramLength(Len(program.val)))
             ELSE IF segwit_v0_length_invalid(version.val, Len(program.val))
                  THEN Err(InvalidSegwitV0ProgramLength(Len(program.val)))
             ELSE Ok(Address(WitnessProgram(version.val, program.val), network,
                             Prefix_segwit(d.val.hrp)))

from_str_bech32(s, network) ==
  LET d == bech32_decode(s)
  IN IF ~d.ok THEN Err(d.err)
     ELSE IF payload_is_empty(d.val.payload) THEN Err(EmptyBech32Payload)
     ELSE LET split == split_at(d.val.payload, 1)
              version == WitnessVersion_try_from_u5(split.val[1][1])
              program == from_base32(split.val[2])
          IN IF ~split.ok THEN split
             ELSE IF ~version.ok THEN Err(version.err)
             ELSE IF ~program.ok THEN Err(program.err)
             ELSE IF witness_program_length_invalid(Len(program.val))
                  THEN Err(InvalidWitnessProgramLength(Len(program.val)))
             ELSE IF segwit_v0_length_invalid(version.val, Len(program.val))
                  THEN Err(InvalidSegwitV0ProgramLength(Len(program.val)))
             ELSE IF bech32_variant(version.val) # d.val.variant
                  THEN Err(InvalidBech32Variant(bech32_variant(version.val), d.val.variant))
             ELSE Ok(Address(WitnessProgram(version.val, program.val), network,
                             Prefix_segwit(d.val.hrp)))

\* A Base58 branch that takes a test version byte for Regtest.
from_str_base58_regtest(s) ==
  IF TextLen(s) > 50 THEN Err(Base58Error(InvalidLength((TextLen(s) * 11) \div 15)))
  ELSE LET data == base58_from_check(s)
       IN IF ~data.ok THEN Err(data.err)
          ELSE IF Len(data.val) # 21 THEN Err(Base58Error(InvalidLength(Len(data.val))))
          ELSE LET prefix_byte == data.val[1]
                   hash == Tail(data.val)
               IN IF prefix_byte \in { BITCOIN_PUBKEY_ADDRESS_PREFIX_MAIN,
                                       DOGECOIN_PUBKEY_ADDRESS_PREFIX_MAIN,
                                       LITECOIN_PUBKEY_ADDRESS_PREFIX_MAIN,
                                       STRATIS_PUBKEY_ADDRESS_PREFIX_MAIN }
                  THEN Ok(Address(PubkeyHash(hash), "Bitcoin", Prefix_pubkey(prefix_byte)))
                  ELSE IF prefix_byte \in { BITCOIN_SCRIPT_ADDRESS_PREFIX_MAIN,
                                            DOGECOIN_SCRIPT_ADDRESS_PREFIX_MAIN,
                                            LITECOIN_SCRIPT_ADDRESS_PREFIX_MAIN,
                                            STRATIS_SCRIPT_ADDRESS_PREFIX_MAIN }
                  THEN Ok(Address(ScriptHash(hash), "Bitcoin", Prefix_script(prefix_byte)))
                  ELSE IF prefix_byte \in { BITCOIN_PUBKEY_ADDRESS_PREFIX_TEST,
                                            DOGECOIN_PUBKEY_ADDRESS_PREFIX_TEST,
                                            LITECOIN_PUBKEY_ADDRESS_PREFIX_TEST,
                                            STRATIS_PUBKEY_ADDRESS_PREFIX_TEST }
                  THEN Ok(Address(PubkeyHash(hash), "Regtest", Prefix_pubkey(prefix_byte)))
                  ELSE IF prefix_byte \in { BITCOIN_SCRIPT_ADDRESS_PREFIX_TEST,
                                            DOGECOIN_SCRIPT_ADDRESS_PREFIX_TEST,
                                            LITECOIN_SCRIPT_ADDRESS_PREFIX_TEST,
                                            STRATIS_SCRIPT_ADDRESS_PREFIX_TEST }
                  THEN Ok(Address(ScriptHash(hash), "Regtest", Prefix_script(prefix_byte)))
                  ELSE Err(Base58Error(InvalidAddressVersion(prefix_byte)))

\* PubkeyHash::from_slice(..).unwrap() and ScriptHash::from_slice(..).unwrap():
\* from_slice is an error for a slice of other than 20 bytes, and unwrap
\* panics on it.
from_slice_unwrap(slice) ==
  IF Len(slice) = 20 THEN Ok(slice) ELSE Panic("unwrap: from_slice of bad length")

\* from_str, the Base58 branch from base58::from_check on.
from_str_base58_decoded(s) ==
       LET data == base58_from_check(s)
       IN IF ~data.ok THEN Err(data.err)
          ELSE IF Len(data.val) # 21 THEN Err(Base58Error(InvalidLength(Len(data.val))))
          ELSE LET prefix_byte == data.val[1]
                   hash == from_slice_unwrap(SubSeq(data.val, 2, Len(data.val)))
               IN IF prefix_byte \in { BITCOIN_PUBKEY_ADDRESS_PREFIX_MAIN,
                                       DOGECOIN_PUBKEY_ADDRESS_PREFIX_MAIN,
                                       LITECOIN_PUBKEY_ADDRESS_PREFIX_MAIN,
                                       STRATIS_PUBKEY_ADDRESS_PREFIX_MAIN }
                  THEN IF ~hash.ok THEN hash
                       ELSE Ok(Address(PubkeyHash(hash.val), "Bitcoin", Prefix_pubkey(prefix_byte)))
                  ELSE IF prefix_byte \in { BITCOIN_SCRIPT_ADDRESS_PREFIX_MAIN,
                                            DOGECOIN_SCRIPT_ADDRESS_PREFIX_MAIN,
                                            LITECOIN_SCRIPT_ADDRESS_PREFIX_MAIN,
                                            STRATIS_SCRIPT_ADDRESS_PREFIX_MAIN }
                  THEN IF ~hash.ok THEN hash
                       ELSE Ok(Address(ScriptHash(hash.val), "Bitcoin", Prefix_script(prefix_byte)))
                  ELSE IF prefix_byte \in { BITCOIN_PUBKEY_ADDRESS_PREFIX_TEST,
                                            DOGECOIN_PUBKEY_ADDRESS_PREFIX_TEST,
                                            LITECOIN_PUBKEY_ADDRESS_PREFIX_TEST,
                                            STRATIS_PUBKEY_ADDRESS_PREFIX_TEST }
                  THEN IF ~hash.ok THEN hash
                       ELSE Ok(Address(PubkeyHash(hash.val), "Testnet", Prefix_pubkey(prefix_byte)))
                  ELSE IF prefix_byte \in { BITCOIN_SCRIPT_ADDRESS_PREFIX_TEST,
                                            DOGECOIN_SCRIPT_ADDRESS_PREFIX_TEST,
                                            LITECOIN_SCRIPT_ADDRESS_PREFIX_TEST,
                                            STRATIS_SCRIPT_ADDRESS_PREFIX_TEST }
                  THEN IF ~hash.ok THEN hash
                       ELSE Ok(Address(ScriptHash(hash.val), "Testnet", Prefix_script(prefix_byte)))
                  ELSE Err(Base58Error(InvalidAddressVersion(prefix_byte)))

\* A Base58 branch without the guard on the length of the text.
from_str_base58_unguarded(s) == from_str_base58_decoded(s)

\* from_str, the Base58 branch: the guard on the length of the text, then
\* the decoding.
from_str_base58(s) ==
  IF TextLen(s) > 50 THEN Err(Base58Error(InvalidLength((TextLen(s) * 11) \div 15)))
  ELSE from_str_base58_decoded(s)

\* impl FromStr for Address
\* The decoders from_str calls on s, in order: bech32::decode is the first
\* statement of the Bech32 branch, base58::from_check follows the length
\* guard of the Base58 branch.
from_str_decoders(s) ==
  IF bech32_network(s).some THEN <<"bech32::decode">>
  ELSE IF TextLen(s) > 50 THEN <<>>
  ELSE <<"base58::from_check">>

\* from_str trying Base58 after a failure of the Bech32 branch.
Address_from_str_with_fallback(s) ==
  LET network == bech32_network(s)
      first == from_str_bech32(s, network.val)
  IN IF network.some /\ first.ok THEN first ELSE from_str_base58(s)

Address_from_str(s) ==
  LET network == bech32_network(s)
  IN IF network.some THEN from_str_bech32(s, network.val) ELSE from_str_base58(s)

(***************************************************************************)
(* Inputs.                                                                 *)
(***************************************************************************)
\* A byte string of n bytes that vary along the string.
Bytes(seed, n) == [i \in 1..n |-> (seed + 37 * i) % 256]

\* 20-byte hashes: all zero (the tests' all_zeros), all ones, the tests'
\* 162c5ea7...b070, and LtcHash.
TestHash ==
  <<22, 44, 94, 167, 28, 11, 35, 245, 185, 2, 46, 240, 71, 196, 168, 100, 112, 165, 176, 112>>

HashInputs == {Fill(0, 20), Fill(255, 20), TestHash, LtcHash}

\* Witness program lengths: around every limit of the code.
ProgLens == {0, 1, 2, 10, 20, 21, 32, 40, MaxProgLen}

ProgramInputs == {Bytes(117, n) : n \in ProgLens}

PayloadInputs ==
  {PubkeyHash(h) : h \in HashInputs} \cup {ScriptHash(h) : h \in HashInputs}
  \cup {WitnessProgram(v, p) : v \in WitnessVersion, p \in ProgramInputs}
  \cup {WitnessProgram(v, XOnlyPublicKey_serialize(1)) : v \in WitnessVersion}

\* Scripts handed to p2sh, p2wsh and p2shwsh: around the 520-byte limit, and
\* the 561 bytes of test_p2sh_parse_for_large_script.
ScriptLens ==
  {0, 1, MAX_SCRIPT_ELEMENT_SIZE - 1, MAX_SCRIPT_ELEMENT_SIZE, MAX_SCRIPT_ELEMENT_SIZE + 1, 561}

ScriptInputs == {Fill(OP_PUSHNUM_1, n) : n \in ScriptLens}

\* Scripts handed to from_script: the script of every payload, scripts that
\* are near misses of the three shapes, and one script of each shape written
\* out byte by byte.
CraftedScripts ==
  { <<>>, <<OP_PUSHBYTES_0>>,
    <<OP_PUSHBYTES_0, 20>> \o Bytes(1, 19),
    <<OP_PUSHBYTES_0, 32>> \o Bytes(1, 31),
    <<OP_PUSHBYTES_0, 17>> \o Bytes(1, 17),
    <<OP_PUSHNUM_16 + 1, 20>> \o Bytes(1, 20),
    <<OP_PUSHNUM_1 - 1, 20>> \o Bytes(1, 20),
    <<1, 1, 2, 3>>,
    <<OP_DUP, OP_HASH160, 20>> \o TestHash \o <<OP_EQUALVERIFY, OP_EQUALVERIFY>>,
    <<OP_DUP, OP_HASH160, 20>> \o TestHash \o <<OP_EQUALVERIFY, OP_CHECKSIG, 0>>,
    <<OP_HASH160, 20>> \o TestHash \o <<OP_EQUALVERIFY>>,
    <<OP_HASH160, 19>> \o TestHash \o <<OP_EQUAL>>,
    <<OP_DUP, OP_HASH160, 20>> \o TestHash \o <<OP_EQUALVERIFY, OP_CHECKSIG>>,
    <<OP_HASH160, 20>> \o TestHash \o <<OP_EQUAL>>,
    <<OP_PUSHNUM_16, 2, 7, 7>> }

FromScriptInputs == {Payload_script_pubkey(p) : p \in PayloadInputs} \cup CraftedScripts

\* Merkle roots for p2tr: none, or a 32-byte branch hash.
MerkleInputs == {<<>>, Fill(9, 32)}

\* Bech32 texts handed to the parser: every combination of a prefix, a
\* first symbol, a program, a checksum and a case.
HrpInputs == {"bc", "BC", "Bc", "tb", "tB", "bcrt", "ltc", "tltc", "tc", "X", "q", "STRAX"}

FirstSymbols == {0, 1, 2, 16, 17, 31}

DataInputs ==
  {<<>>} \cup {<<v>> \o to_base32(p) : v \in FirstSymbols, p \in ProgramInputs}
  \cup {<<v>> \o to_base32(Bytes(117, 20)) \o <<0>> : v \in {0, 1, 17}}
  \cup {<<v>> \o Fill(31, 32) : v \in {0, 1, 17}}

Bech32TextInputs ==
  { Bech32Text(h, d, c, u) :
      h \in HrpInputs, d \in DataInputs, c \in {"Bech32", "Bech32m", "bad"}, u \in BOOLEAN }

\* Base58 texts handed to the parser: the Base58Check text of every version
\* byte followed by a 20-byte hash, Base58Check texts of shorter and longer
\* data (that of 33 bytes has 51 characters), and texts of 10, 50 and 51
\* characters that are no Base58Check text, and the texts "bc", "Bc" and "tB",
\* which have no '1' and so are their own prefix.
Base58TextInputs ==
  { base58_check_encode(<<b>> \o h) : b \in 0..255, h \in {TestHash, LtcHash} }
  \cup { base58_check_encode(Bytes(5, n)) : n \in {0, 1, 20, 22, 32, 33} }
  \cup { Base58Text("other", n, Err(Base58Error(Base58Decode))) : n \in {10, 50, 51} }
  \cup { Base58Text(h, Len(h), Err(Base58Error(Base58Decode))) : h \in {"bc", "Bc", "tB"} }

TextInputs == Bech32TextInputs \cup Base58TextInputs

(***************************************************************************)
(* The state.                                                              *)
(*   made   the address a constructor returned, how and for which chain    *)
(*   text   the text at hand and where it is from                          *)
(*   parsed the address the parser returned                                *)
(*   res    the last operation: its name, its input and what it returned   *)
(***************************************************************************)
NoAddr == [none |-> TRUE]

NoText == [none |-> TRUE]

Made(address, by, chain) == [address |-> address, by |-> by, chain |-> chain]

Res(op, in, out) == [op |-> op, in |-> in, out |-> out]

NamedConstructors ==
  {"p2pkh", "p2sh", "p2wpkh", "p2shwpkh", "p2wsh", "p2shwsh", "p2tr", "p2tr_tweaked",
   "from_script"}

Init ==
  /\ made = NoAddr
  /\ text = NoText
  /\ parsed = NoAddr
  /\ res = Res("none", <<>>, <<>>)

Fresh == res.op = "none"

\* A constructor returned out (an Address, or a Result) for chain.
Constructed(by, in, out, address, chain) ==
  /\ made' = IF address = NoAddr THEN NoAddr ELSE Made(address, by, chain)
  /\ res' = Res(by, in, out)
  /\ UNCHANGED <<text, parsed>>

Infallible(by, in, address, chain) == Constructed(by, in, address, address, chain)

Fallible(by, in, result, chain) ==
  Constructed(by, in, result, IF result.ok THEN result.val ELSE NoAddr, chain)

P2pkh ==
  /\ Fresh
  /\ \E pk \in PublicKey, n \in Network, c \in Blockchain :
       Infallible("p2pkh", pk, Address_p2pkh(pk, n, c), c)

P2sh ==
  /\ Fresh
  /\ \E s \in ScriptInputs, n \in Network, c \in Blockchain :
       Fallible("p2sh", s, Address_p2sh(s, n, c), c)

P2wpkh ==
  /\ Fresh
  /\ \E pk \in PublicKey, n \in Network, c \in Blockchain :
       Fallible("p2wpkh", pk, Address_p2wpkh(pk, n, c), c)

P2shwpkh ==
  /\ Fresh
  /\ \E pk \in PublicKey, n \in Network, c \in Blockchain :
       Fallible("p2shwpkh", pk, Address_p2shwpkh(pk, n, c), c)

P2wsh ==
  /\ Fresh
  /\ \E s \in ScriptInputs, n \in Network, c \in Blockchain :
       Infallible("p2wsh", s, Address_p2wsh(s, n, c), c)

P2shwsh ==
  /\ Fresh
  /\ \E s \in ScriptInputs, n \in Network, c \in Blockchain :
       Infallible("p2shwsh", s, Address_p2shwsh(s, n, c), c)

P2tr ==
  /\ Fresh
  /\ \E k \in 1..NumKeys, m \in MerkleInputs, n \in Network, c \in Blockchain :
       Infallible("p2tr", <<k, m>>, Address_p2tr(k, m, n, c), c)

P2trTweaked ==
  /\ Fresh
  /\ \E k \in 1..NumKeys, n \in Network, c \in Blockchain :
       Infallible("p2tr_tweaked", k, Address_p2tr_tweaked(k, n, c), c)

FromScript ==
  /\ Fresh
  /\ \E s \in FromScriptInputs, n \in Network, c \in Blockchain :
       Fallible("from_script", s, Address_from_script(s, n, c), c)

\* The struct literal of the tests: Address { network, payload, prefix } with
\* the prefix of Prefix::from_payload.
Literal ==
  /\ Fresh
  /\ \E p \in PayloadInputs, n \in Network, c \in Blockchain :
       Infallible("literal", p, WithPrefix(p, n, c), c)

\* to_string(), or format!("{:#}") when alternate, of the address made.
Display ==
  /\ res.op \in NamedConstructors \cup {"literal"}
  /\ made # NoAddr
  /\ \E alternate \in BOOLEAN :
       /\ text' = [s |-> Address_fmt(made.address, alternate),
                   from |-> IF alternate THEN "alternate" ELSE "display"]
       /\ res' = Res("fmt", alternate, Address_fmt(made.address, alternate))
  /\ UNCHANGED <<made, parsed>>

\* from_str of s.
Parse(s) ==
  LET r == Address_from_str(s)
  IN /\ parsed' = IF r.ok THEN r.val ELSE NoAddr
     /\ res' = [op |-> "from_str", in |-> s, out |-> r, decoders |-> from_str_decoders(s)]

\* from_str of the text just rendered.
FromStrRendered ==
  /\ res.op = "fmt"
  /\ Parse(text.s)
  /\ UNCHANGED <<made, text>>

\* from_str of a text from elsewhere.
FromStrInput ==
  /\ Fresh
  /\ \E s \in TextInputs :
       /\ text' = [s |-> s, from |-> "input"]
       /\ Parse(s)
  /\ UNCHANGED made

\* The address at hand: the one parsed, else the one made.
HasCurrent ==
  \/ res.op = "from_str" /\ parsed # NoAddr
  \/ res.op \in NamedConstructors \cup {"literal"} /\ made # NoAddr

Current == IF res.op = "from_str" THEN parsed ELSE made.address

AddressType ==
  /\ HasCurrent
  /\ res' = Res("address_type", Current,
                [type |-> Address_address_type(Current),
                 is_standard |-> Address_is_standard(Current)])
  /\ UNCHANGED <<made, text, parsed>>

IsValidForNetwork ==
  /\ HasCurrent
  /\ \E n \in Network :
       res' = Res("is_valid_for_network", [address |-> Current, network |-> n],
                  Address_is_valid_for_network(Current, n))
  /\ UNCHANGED <<made, text, parsed>>

ScriptPubkey ==
  /\ HasCurrent
  /\ res' = Res("script_pubkey", Current, Address_script_pubkey(Current))
  /\ UNCHANGED <<made, text, parsed>>

\* Payload::from_script of the script just generated.
PayloadFromScript ==
  /\ res.op = "script_pubkey"
  /\ res' = Res("payload_from_script", [payload |-> res.in.payload, script |-> res.out],
                Payload_from_script(res.out))
  /\ UNCHANGED <<made, text, parsed>>

ToQrUri ==
  /\ HasCurrent
  /\ res' = Res("to_qr_uri", Current, Address_to_qr_uri(Current))
  /\ UNCHANGED <<made, text, parsed>>

IsRelatedToXonlyPubkey ==
  /\ HasCurrent
  /\ \E k \in 1..NumKeys :
       res' = Res("is_related_to_xonly_pubkey", [address |-> Current, xonly_pubkey |-> k],
                  Address_is_related_to_xonly_pubkey(Current, k))
  /\ UNCHANGED <<made, text, parsed>>

\* to_string() of the address just parsed.
FmtParsed ==
  /\ res.op = "from_str"
  /\ parsed # NoAddr
  /\ res' = Res("fmt_parsed", [s |-> res.in, address |-> parsed], Address_fmt(parsed, FALSE))
  /\ UNCHANGED <<made, text, parsed>>

\* Payload::from_script(script) and, when it returns a payload, the
\* script_pubkey() of that payload.
FromScriptScriptPubkey ==
  /\ Fresh
  /\ \E script \in FromScriptInputs :
       LET payload == Payload_from_script(script)
       IN res' = Res("from_script_script_pubkey", script,
                     IF payload.ok
                     THEN Ok([payload |-> payload.val,
                              script_pubkey |-> Payload_script_pubkey(payload.val)])
                     ELSE payload)
  /\ UNCHANGED <<made, text, parsed>>

TryFromOpcode ==
  /\ Fresh
  /\ \E opcode \in 0..255 :
       res' = Res("try_from_opcode", opcode, WitnessVersion_try_from_opcode(opcode))
  /\ UNCHANGED <<made, text, parsed>>

\* Instructions: every opcode, and data pushes of no byte, of one byte of
\* every value up to 17 and of two bytes.
TryFromInstruction ==
  /\ Fresh
  /\ \E instruction \in { [kind |-> "Op", op |-> op] : op \in 0..255 }
                       \cup { [kind |-> "PushBytes", bytes |-> b] :
                                b \in {<<>>, <<1, 1>>} \cup { <<n>> : n \in 0..17 } } :
       res' = Res("try_from_instruction", instruction,
                  WitnessVersion_try_from_instruction(instruction))
  /\ UNCHANGED <<made, text, parsed>>

\* Prefixes for an Address written as a struct literal, one of each variant:
\* the fields of Address are public, so the prefix need not be the one
\* Prefix::from_payload gives for the payload.
PrefixInputs ==
  {Prefix_pubkey(LITECOIN_PUBKEY_ADDRESS_PREFIX_MAIN),
   Prefix_script(LITECOIN_SCRIPT_ADDRESS_PREFIX_MAIN), Prefix_segwit("ltc")}

\* to_string(), or format!("{:#}") when alternate, of an Address written as
\* a struct literal with any prefix.
FmtLiteral ==
  /\ Fresh
  /\ \E p \in PayloadInputs, n \in Network, prefix \in PrefixInputs, alternate \in BOOLEAN :
       res' = Res("fmt_literal", [address |-> Address(p, n, prefix), alternate |-> alternate],
                  Address_fmt(Address(p, n, prefix), alternate))
  /\ UNCHANGED <<made, text, parsed>>

TryFromU8 ==
  /\ Fresh
  /\ \E no \in 0..255 : res' = Res("try_from_u8", no, WitnessVersion_try_from_u8(no))
  /\ UNCHANGED <<made, text, parsed>>

TryFromU5 ==
  /\ Fresh
  /\ \E value \in 0..31 : res' = Res("try_from_u5", value, WitnessVersion_try_from_u5(value))
  /\ UNCHANGED <<made, text, parsed>>

Next ==
  \/ P2pkh \/ P2sh \/ P2wpkh \/ P2shwpkh \/ P2wsh \/ P2shwsh \/ P2tr \/ P2trTweaked
  \/ FromScript \/ Literal
  \/ Display \/ FromStrRendered \/ FromStrInput
  \/ AddressType \/ IsValidForNetwork \/ ScriptPubkey \/ PayloadFromScript
  \/ ToQrUri \/ IsRelatedToXonlyPubkey
  \/ TryFromU8 \/ TryFromU5
  \/ FmtLiteral \/ FmtParsed \/ TryFromOpcode \/ TryFromInstruction
  \/ FromScriptScriptPubkey

Spec == Init /\ [][Next]_vars

(***************************************************************************)
(* Properties.                                                             *)
(***************************************************************************)
\* The prefixes the match at the head of from_str sends to the Bech32 branch.
RecognisedPrefixes ==
  {"bc", "BC", "ltc", "LTC", "X", "tb", "TB", "tltc", "TLTC", "q", "bcrt", "BCRT"}

\* The last step parsed the to_string() text of an address that a named
\* constructor returned.
RoundTripped ==
  /\ res.op = "from_str"
  /\ made # NoAddr
  /\ made.by \in NamedConstructors
  /\ text.from = "display"

IsWitnessPayload(payload) == payload.kind = "WitnessProgram"

\* The network pairs for which Prefix::from_payload has a human-readable
\* part that the parser knows.
SegwitParseable(network, chain) ==
  \/ chain = "Bitcoin"
  \/ chain = "Litecoin" /\ network \in {"Bitcoin", "Testnet"}

\* C1 as the specification states it: parsing the rendered text of any
\* address of a named constructor, for any network and chain, gives the
\* address back (payload, network and prefix).
C1_RoundTripAnyNetworkAnyChain == RoundTripped => res.out = Ok(made.address)

\* C1, amended: parsing the rendered text of an address a of a named
\* constructor gives back a's payload and prefix, with network Bitcoin for a
\* Bitcoin address and Testnet otherwise when a is a Base58 address, and with
\* a's network (Testnet for Signet) when a is a witness address of chain
\* Bitcoin or of Litecoin on Bitcoin or Testnet.  It never gives a back for
\* the witness addresses of every other network and chain, nor for a Base58
\* text whose characters before its last '1' are a recognised Bech32 prefix.
C1_RoundTrip ==
  RoundTripped =>
    LET a == made.address
    IN IF IsWitnessPayload(a.payload)
       THEN IF SegwitParseable(a.network, made.chain)
            THEN res.out = Ok(Address(a.payload,
                                      IF a.network = "Signet" THEN "Testnet" ELSE a.network,
                                      a.prefix))
            ELSE res.out # Ok(a)
       ELSE IF text.s.lead \in RecognisedPrefixes
            THEN res.out # Ok(a)
            ELSE res.out = Ok(Address(a.payload,
                                      IF a.network = "Bitcoin" THEN "Bitcoin" ELSE "Testnet",
                                      a.prefix))

\* A Base58 address made for Signet came back from the parser as a Testnet
\* address with the same payload and prefix.
C1_Witness ==
  /\ RoundTripped
  /\ ~IsWitnessPayload(made.address.payload)
  /\ made.address.network = "Signet"
  /\ res.out = Ok(Address(made.address.payload, "Testnet", made.address.prefix))

\* The payloads the script parser accepts back: a hash, or a witness program
\* of 2 to 40 bytes that for V0 has 20 or 32 bytes.
ScriptParseable(payload) ==
  IsWitnessPayload(payload) =>
    /\ Len(payload.program) \in 2..40
    /\ payload.version = 0 => Len(payload.program) \in {20, 32}

\* C2: Payload::from_script of the script_pubkey of a payload gives the
\* payload back, for every payload of a named constructor and every witness
\* payload whose program the script parser accepts; all payloads of the
\* named constructors are of that kind.
C2_ScriptRoundTrip ==
  /\ (made # NoAddr /\ made.by \in NamedConstructors) => ScriptParseable(made.address.payload)
  /\ (res.op = "payload_from_script" /\ ScriptParseable(res.in.payload)) =>
       res.out = Ok(res.in.payload)

\* A V16 program of 40 bytes went through script_pubkey and from_script.
C2_Witness ==
  /\ res.op = "payload_from_script"
  /\ IsWitnessPayload(res.in.payload)
  /\ res.in.payload.version = 16
  /\ Len(res.in.payload.program) = 40
  /\ res.out = Ok(res.in.payload)

\* C3: for chain Bitcoin and any network n, the rendered text of an address
\* of a named constructor parses, to the same payload, and the parsed
\* address is valid for n.
C3_BitcoinRoundTrip ==
  /\ (RoundTripped /\ made.chain = "Bitcoin") =>
       /\ res.out.ok
       /\ res.out.val.payload = made.address.payload
       /\ parsed = res.out.val
  /\ ( /\ res.op = "is_valid_for_network"
       /\ made # NoAddr
       /\ made.by \in NamedConstructors
       /\ made.chain = "Bitcoin"
       /\ text # NoText
       /\ res.in.network = made.address.network ) =>
       /\ text.from \in {"display", "alternate"}
       /\ res.in.address = parsed
       /\ text.from = "display" => res.out = TRUE

\* The parsed text of a Signet witness address of chain Bitcoin was asked
\* whether it is valid for Signet, and it is.
C3_Witness ==
  /\ res.op = "is_valid_for_network"
  /\ made # NoAddr
  /\ made.by \in NamedConstructors
  /\ made.chain = "Bitcoin"
  /\ text # NoText
  /\ text.from = "display"
  /\ made.address.network = "Signet"
  /\ IsWitnessPayload(made.address.payload)
  /\ res.in = [address |-> parsed, network |-> "Signet"]
  /\ parsed.network = "Testnet"
  /\ res.out = TRUE

\* The checksum variant BIP-350 asks of a version symbol.
RequiredVariant(symbol) == IF symbol = 0 THEN "Bech32" ELSE "Bech32m"

\* s is a Bech32 text of a recognised prefix whose checksum verifies for the
\* variant that its version symbol does not ask for.
VariantMismatch(s) ==
  /\ s.form = "bech32"
  /\ s.hrp \in RecognisedPrefixes
  /\ s.data # <<>>
  /\ s.data[1] \in 0..16
  /\ s.checksum \in {"Bech32", "Bech32m"}
  /\ s.checksum # RequiredVariant(s.data[1])

\* s gets through the decoder, the version and the repacking.
Decodes(s) ==
  /\ s.form = "bech32"
  /\ s.hrp \in RecognisedPrefixes
  /\ bech32_decode(s).ok
  /\ s.data # <<>>
  /\ s.data[1] \in 0..16
  /\ from_base32(Tail(s.data)).ok

ProgramLen(s) == Len(from_base32(Tail(s.data)).val)

LengthsPass(s) ==
  /\ ProgramLen(s) \in 2..40
  /\ s.data[1] = 0 => ProgramLen(s) \in {20, 32}

\* C4: a Bech32 text whose checksum variant is not the one its witness
\* version requires never parses; when all earlier checks pass the error is
\* InvalidBech32Variant with the expected and the found variant.
C4_VariantMismatch ==
  (res.op = "from_str" /\ VariantMismatch(res.in)) =>
    /\ ~res.out.ok
    /\ (Decodes(res.in) /\ LengthsPass(res.in)) =>
         res.out = Err(InvalidBech32Variant(RequiredVariant(res.in.data[1]), res.in.checksum))

\* A V1 program of 32 bytes under a Bech32 checksum was refused.
C4_Witness ==
  /\ res.op = "from_str"
  /\ VariantMismatch(res.in)
  /\ res.in.data[1] = 1
  /\ Decodes(res.in)
  /\ ProgramLen(res.in) = 32
  /\ res.out = Err(InvalidBech32Variant("Bech32m", "Bech32"))

\* C5: a Bech32 text parses only if its program has 2 to 40 bytes and, for
\* V0, 20 or 32 bytes; a decoded program of a length outside 2..40 gives
\* InvalidWitnessProgramLength(length), and a V0 program of a length in
\* 2..40 other than 20 and 32 gives InvalidSegwitV0ProgramLength(length).
C5_ProgramLength ==
  /\ (res.op = "from_str" /\ res.out.ok /\ IsWitnessPayload(res.out.val.payload)) =>
       /\ Len(res.out.val.payload.program) \in 2..40
       /\ res.out.val.payload.version = 0 => Len(res.out.val.payload.program) \in {20, 32}
       /\ res.in.form = "bech32"
       /\ ProgramLen(res.in) = Len(res.out.val.payload.program)
  /\ (res.op = "from_str" /\ Decodes(res.in)) =>
       /\ ProgramLen(res.in) \notin 2..40 =>
            res.out = Err(InvalidWitnessProgramLength(ProgramLen(res.in)))
       /\ (ProgramLen(res.in) \in 2..40 /\ res.in.data[1] = 0
           /\ ProgramLen(res.in) \notin {20, 32}) =>
            res.out = Err(InvalidSegwitV0ProgramLength(ProgramLen(res.in)))

\* A text with a program of 41 bytes was refused for its length.
C5_Witness ==
  /\ res.op = "from_str"
  /\ Decodes(res.in)
  /\ ProgramLen(res.in) = 41
  /\ res.out = Err(InvalidWitnessProgramLength(41))

\* C6: WitnessVersion::try_from of a number n succeeds exactly when n is
\* in 0..16, with the version whose to_num() is n; otherwise it returns
\* InvalidWitnessVersion(n).  The conversion of a Bech32 symbol does the
\* same for the value of the symbol.
C6_TryFrom ==
  res.op \in {"try_from_u8", "try_from_u5"} =>
    /\ res.out.ok <=> (0 <= res.in /\ res.in <= 16)
    /\ res.out.ok => res.out.val \in WitnessVersion /\ WitnessVersion_to_num(res.out.val) = res.in
    /\ ~res.out.ok => res.out = Err(InvalidWitnessVersion(res.in))

\* The number 16 was converted to V16.
C6_Witness == res.op = "try_from_u8" /\ res.in = 16 /\ res.out = Ok(16)

\* The networks an address is valid for: the classes of its own network.
NetworkClass(payload, network) ==
  IF IsWitnessPayload(payload)
  THEN CASE network = "Bitcoin" -> 1
         [] network = "Regtest" -> 2
         [] network \in {"Testnet", "Signet"} -> 3
  ELSE IF network = "Bitcoin" THEN 1 ELSE 3

\* C7: is_valid_for_network(n) holds exactly when n and the address's
\* network are in one class: {Bitcoin} and {Testnet, Regtest, Signet} for a
\* PubkeyHash or ScriptHash payload, {Bitcoin}, {Regtest} and
\* {Testnet, Signet} for a WitnessProgram payload of any version and any
\* program length.
C7_NetworkClasses ==
  res.op = "is_valid_for_network" =>
    res.out = (NetworkClass(res.in.address.payload, res.in.address.network)
               = NetworkClass(res.in.address.payload, res.in.network))

\* A Regtest address with an empty V0 program is not valid for Testnet.
C7_Witness ==
  /\ res.op = "is_valid_for_network"
  /\ IsWitnessPayload(res.in.address.payload)
  /\ res.in.address.payload.program = <<>>
  /\ res.in.address.network = "Regtest"
  /\ res.in.network = "Testnet"
  /\ res.out = FALSE

\* The version bytes of the supported coins.
MainVersionBytes == {0, 5, 30, 22, 48, 50, 75, 140}

TestVersionBytes == {111, 196, 113, 58, 120, 127}

\* C8: an address parsed from Base58 has network Bitcoin when the version
\* byte of the text is a mainnet version byte of a supported coin and
\* Testnet when it is a testnet version byte, whatever the rest of the text;
\* it never has network Signet or Regtest.
C8_Base58Network ==
  (res.op = "from_str" /\ res.out.ok /\ ~IsWitnessPayload(res.out.val.payload)) =>
    /\ res.in.form = "base58"
    /\ res.in.check.ok
    /\ res.in.check.val[1] \in MainVersionBytes \cup TestVersionBytes
    /\ res.in.check.val[1] \in MainVersionBytes => res.out.val.network = "Bitcoin"
    /\ res.in.check.val[1] \in TestVersionBytes => res.out.val.network = "Testnet"
    /\ res.out.val.network \in {"Bitcoin", "Testnet"}

\* The text of a Regtest script address of Dogecoin parsed as Testnet.
C8_Witness ==
  /\ RoundTripped
  /\ made.chain = "Dogecoin"
  /\ made.address.network = "Regtest"
  /\ made.address.payload.kind = "ScriptHash"
  /\ res.out.ok
  /\ res.out.val.network = "Testnet"

\* The type of a payload.
TypeOfPayload(payload) ==
  CASE payload.kind = "PubkeyHash" -> Some("P2pkh")
    [] payload.kind = "ScriptHash" -> Some("P2sh")
    [] payload.kind = "WitnessProgram" /\ payload.version = 0 /\ Len(payload.program) = 20 ->
         Some("P2wpkh")
    [] payload.kind = "WitnessProgram" /\ payload.version = 0 /\ Len(payload.program) = 32 ->
         Some("P2wsh")
    [] payload.kind = "WitnessProgram" /\ payload.version = 1 /\ Len(payload.program) = 32 ->
         Some("P2tr")
    [] OTHER -> None

\* C9: address_type depends on the payload only: P2pkh, P2sh, P2wpkh for
\* V0 with 20 bytes, P2wsh for V0 with 32 bytes, P2tr for V1 with 32 bytes
\* and None for every other witness payload; is_standard holds exactly when
\* address_type is not None.
C9_AddressType ==
  res.op = "address_type" =>
    /\ res.out.type = TypeOfPayload(res.in.payload)
    /\ res.out.is_standard = (res.out.type # None)

\* A V1 program of 20 bytes has no type and is not standard.
C9_Witness ==
  /\ res.op = "address_type"
  /\ IsWitnessPayload(res.in.payload)
  /\ res.in.payload.version = 1
  /\ Len(res.in.payload.program) = 20
  /\ res.out = [type |-> None, is_standard |-> FALSE]

\* C10: Address::p2sh returns ExcessiveScriptSize exactly when the script
\* has more than 520 bytes, and then no address is made; a script of 520
\* bytes or fewer gives an address.
C10_P2shSize ==
  res.op = "p2sh" =>
    /\ res.out = Err(ExcessiveScriptSize) <=> Len(res.in) > 520
    /\ Len(res.in) <= 520 => res.out.ok /\ made # NoAddr /\ made.address = res.out.val
    /\ ~res.out.ok => made = NoAddr

\* A script of 521 bytes was refused and no address was made.
C10_Witness ==
  /\ res.op = "p2sh"
  /\ Len(res.in) = 521
  /\ res.out = Err(ExcessiveScriptSize)
  /\ made = NoAddr

\* C11: p2wpkh and p2shwpkh return UncompressedPubkey exactly when the key
\* is uncompressed, and then make no address; with a compressed key p2wpkh
\* gives a V0 witness program of 20 bytes and p2shwpkh a ScriptHash payload;
\* p2pkh gives a PubkeyHash address for a compressed and for an uncompressed
\* key.
C11_CompressedKeys ==
  /\ res.op \in {"p2wpkh", "p2shwpkh"} =>
       /\ res.out = Err(UncompressedPubkey) <=> ~res.in.compressed
       /\ ~res.in.compressed => made = NoAddr
       /\ res.in.compressed =>
            /\ res.out.ok
            /\ made # NoAddr
            /\ made.address = res.out.val
       /\ (res.in.compressed /\ res.op = "p2wpkh") =>
            /\ res.out.val.payload.kind = "WitnessProgram"
            /\ res.out.val.payload.version = 0
            /\ Len(res.out.val.payload.program) = 20
       /\ (res.in.compressed /\ res.op = "p2shwpkh") =>
            /\ res.out.val.payload.kind = "ScriptHash"
            /\ Len(res.out.val.payload.hash) = 20
  /\ res.op = "p2pkh" =>
       /\ made # NoAddr
       /\ made.address = res.out
       /\ res.out.payload.kind = "PubkeyHash"
       /\ Len(res.out.payload.hash) = 20

\* p2wpkh refused an uncompressed key.
C11_Witness ==
  /\ res.op = "p2wpkh"
  /\ ~res.in.compressed
  /\ res.out = Err(UncompressedPubkey)
  /\ made = NoAddr

\* What the claim asks Payload::from_script to return for a script: the
\* hash of a P2PKH or P2SH script, the version and program of a witness
\* program script, InvalidSegwitV0ProgramLength for a V0 program that has
\* neither 20 nor 32 bytes, UnrecognizedScript for any other script.
ClassifiedByShape(script) ==
  IF Script_is_p2pkh(script) THEN Ok(PubkeyHash(SubSeq(script, 4, 23)))
  ELSE IF Script_is_p2sh(script) THEN Ok(ScriptHash(SubSeq(script, 3, 22)))
  ELSE IF Script_is_witness_program(script)
  THEN IF script[1] = 0 /\ (Len(script) - 2) \notin {20, 32}
       THEN Err(InvalidSegwitV0ProgramLength(Len(script) - 2))
       ELSE Ok(WitnessProgram(IF script[1] = 0 THEN 0 ELSE script[1] - 80,
                              SubSeq(script, 3, Len(script))))
  ELSE Err(UnrecognizedScript)

\* C12: Payload::from_script gives PubkeyHash for the P2PKH pattern,
\* ScriptHash for the P2SH pattern, WitnessProgram for a witness program
\* pattern, InvalidSegwitV0ProgramLength(script length - 2) for a V0 witness
\* program that has neither 20 nor 32 bytes, and UnrecognizedScript for
\* every script of none of the three shapes; Address::from_script passes the
\* payload and the error on.
C12_FromScriptShapes ==
  /\ res.op = "payload_from_script" => res.out = ClassifiedByShape(res.in.script)
  /\ res.op = "from_script" =>
       /\ res.out.ok = ClassifiedByShape(res.in).ok
       /\ res.out.ok => res.out.val.payload = ClassifiedByShape(res.in).val
       /\ ~res.out.ok => res.out = ClassifiedByShape(res.in)

\* The script 0x00 0x11 and 17 bytes of test_fail_address_from_script was
\* refused for the length of its V0 program.
C12_Witness ==
  /\ res.op = "from_script"
  /\ Len(res.in) = 19
  /\ res.in[1] = 0
  /\ res.in[2] = 17
  /\ res.out = Err(InvalidSegwitV0ProgramLength(17))

\* What find_bech32_prefix sees of a text.
TextPrefix(s) == IF s.form = "bech32" THEN s.hrp ELSE s.lead

\* The last step parsed a text that the prefix match sends to Base58.
ParsedAsBase58 == res.op = "from_str" /\ TextPrefix(res.in) \notin RecognisedPrefixes

\* C13: in the Base58 branch a text of more than 50 characters gives a
\* Base58 InvalidLength error (of length * 11 / 15) whether or not it is a
\* Base58Check text; a Base58Check text of at most 50 characters whose data
\* has not 21 bytes gives InvalidLength(number of bytes); one of 21 bytes
\* whose first byte is no version byte of a supported coin gives
\* InvalidAddressVersion(first byte).
C13_Base58Errors ==
  ParsedAsBase58 =>
    /\ TextLen(res.in) > 50 =>
         res.out = Err(Base58Error(InvalidLength((TextLen(res.in) * 11) \div 15)))
    /\ (TextLen(res.in) <= 50 /\ res.in.form = "base58" /\ res.in.check.ok) =>
         /\ Len(res.in.check.val) # 21 =>
              res.out = Err(Base58Error(InvalidLength(Len(res.in.check.val))))
         /\ ( /\ Len(res.in.check.val) = 21
              /\ res.in.check.val[1] \notin MainVersionBytes \cup TestVersionBytes ) =>
              res.out = Err(Base58Error(InvalidAddressVersion(res.in.check.val[1])))

\* A Base58Check text of 51 characters, of 33 bytes of data, was refused for
\* the length of the text and not for the 33 bytes.
C13_Witness ==
  /\ ParsedAsBase58
  /\ res.in.form = "base58"
  /\ res.in.check.ok
  /\ Len(res.in.check.val) = 33
  /\ TextLen(res.in) = 51
  /\ res.out = Err(Base58Error(InvalidLength(37)))

\* A Bech32 text with every character upper-cased: the symbols and the
\* checksum they spell stay what they are.
UpperCased(s) == Bech32Text(ToUpper(s.hrp), s.data, s.checksum, TRUE)

\* to_string() of an address.
NormalRendering(address) == Address_fmt(address, FALSE)

\* C14: to_qr_uri gives "BITCOIN:" and the normal rendering with every
\* character upper-cased for a witness program payload, "bitcoin:" and the
\* normal rendering as it is for a PubkeyHash or ScriptHash payload; the
\* alternate rendering of a Base58 address is its normal rendering.
C14_QrUri ==
  /\ res.op = "to_qr_uri" =>
       IF IsWitnessPayload(res.in.payload)
       THEN /\ res.out.schema = "BITCOIN"
            /\ NormalRendering(res.in).form = "bech32"
            /\ res.out.address = UpperCased(NormalRendering(res.in))
       ELSE /\ res.out.schema = "bitcoin"
            /\ NormalRendering(res.in).form = "base58"
            /\ res.out.address = NormalRendering(res.in)
  /\ (res.op = "fmt" /\ res.in = TRUE /\ ~IsWitnessPayload(made.address.payload)) =>
       /\ res.out.form = "base58"
       /\ res.out = NormalRendering(made.address)

\* The URI of a Litecoin witness address: BITCOIN:LTC1 and so on.
C14_Witness ==
  /\ res.op = "to_qr_uri"
  /\ IsWitnessPayload(res.in.payload)
  /\ res.in.prefix = Prefix_segwit("ltc")
  /\ res.out.schema = "BITCOIN"
  /\ res.out.address.hrp = "LTC"
  /\ res.out.address.upper

\* C15: from_str returns an Address or an Error for every text and never
\* panics: a text the decoder accepts with no data symbols gives
\* EmptyBech32Payload before the first symbol is split off, and a
\* Base58Check text whose data has not 21 bytes gives InvalidLength before
\* the 20-byte hash is taken.
C15_ParseTotal ==
  res.op = "from_str" =>
    /\ "panic" \notin DOMAIN res.out
    /\ res.out.ok => (DOMAIN res.out = {"ok", "val"} /\ parsed = res.out.val)
    /\ ~res.out.ok => (DOMAIN res.out = {"ok", "err"} /\ parsed = NoAddr)
    /\ ( /\ res.in.form = "bech32"
         /\ res.in.hrp \in RecognisedPrefixes
         /\ bech32_decode(res.in).ok
         /\ res.in.data = <<>> ) => res.out = Err(EmptyBech32Payload)
    /\ ( /\ ParsedAsBase58
         /\ res.in.form = "base58"
         /\ res.in.check.ok
         /\ Len(res.in.check.val) # 21 ) =>
         (~res.out.ok /\ "b58" \in DOMAIN res.out.err.inner
          /\ res.out.err.inner.b58 = "InvalidLength")

\* A text of prefix, separator and checksum alone was refused as empty.
C15_Witness ==
  /\ res.op = "from_str"
  /\ res.in.form = "bech32"
  /\ res.in.hrp = "bc"
  /\ res.in.data = <<>>
  /\ res.in.checksum = "Bech32"
  /\ res.out = Err(EmptyBech32Payload)

\* C16: is_related_to_xonly_pubkey is true only for a V1 witness program of
\* 32 bytes that equals the serialization of the key, and false for every
\* PubkeyHash, ScriptHash, V0 and V2..V16 payload, whatever its bytes.
C16_OnlyTaproot ==
  res.op = "is_related_to_xonly_pubkey" =>
    ( res.out = TRUE <=>
        /\ IsWitnessPayload(res.in.address.payload)
        /\ res.in.address.payload.version = 1
        /\ Len(res.in.address.payload.program) = 32
        /\ res.in.address.payload.program = XOnlyPublicKey_serialize(res.in.xonly_pubkey) )

\* The network pairs of C17: every Dogecoin network, and Litecoin or Stratis
\* on Signet or Regtest.
PlaceholderPair(network, chain) ==
  \/ chain = "Dogecoin"
  \/ chain \in {"Litecoin", "Stratis"} /\ network \in {"Signet", "Regtest"}

\* The placeholder text of a pair, written out.
PlaceholderText(network, chain) ==
  "segwit unsupported for network/chain "
    \o (CASE network = "Bitcoin" -> "bitcoin" [] network = "Testnet" -> "testnet"
           [] network = "Signet" -> "signet" [] network = "Regtest" -> "regtest")
    \o "/" \o chain

\* The last step parsed the text, plain or alternate, of an address that a
\* named constructor made.
ParsedRendering ==
  /\ res.op = "from_str"
  /\ made # NoAddr
  /\ made.by \in NamedConstructors
  /\ text.from \in {"display", "alternate"}

\* C17: an address made with a witness payload holds a Segwit prefix, which
\* for every Dogecoin network and for Litecoin or Stratis on Signet or
\* Regtest is the placeholder "segwit unsupported for network/chain
\* {network}/{chain}" and for no other pair; the text such an address of a
\* named constructor renders, plain or alternate, does not parse to an
\* Address.
C17_Placeholder ==
  made # NoAddr /\ IsWitnessPayload(made.address.payload) =>
    LET a == made.address
        placeholder == Prefix_segwit(PlaceholderText(a.network, made.chain))
    IN /\ a.prefix.kind = "Segwit"
       /\ PlaceholderPair(a.network, made.chain) <=> a.prefix = placeholder
       /\ ParsedRendering /\ PlaceholderPair(a.network, made.chain) => ~res.out.ok

\* A Taproot address made for Dogecoin on Bitcoin's main network holds the
\* placeholder, and parsing its text failed.
C17_Witness ==
  /\ ParsedRendering
  /\ made.by = "p2tr"
  /\ made.chain = "Dogecoin"
  /\ made.address.network = "Bitcoin"
  /\ made.address.prefix = Prefix_segwit("segwit unsupported for network/chain bitcoin/Dogecoin")
  /\ ~res.out.ok

\* The prefixes of the match at the head of from_str with their case dropped.
LowerCasedPrefixes == {"bc", "ltc", "x", "tb", "tltc", "q", "bcrt"}

\* C18 as stated: an input whose prefix is a known prefix when case is
\* ignored, "Bc" and "tB" included, has the Bech32 decoder run on it and is
\* never handed to the Base58 decoder.
C18_IgnoringCase ==
  res.op = "from_str" /\ ToLower(TextPrefix(res.in)) \in LowerCasedPrefixes =>
    res.decoders = <<"bech32::decode">>

\* C18, amended: from_str runs the Bech32 decoder, and never the Base58
\* decoder, exactly on the inputs whose substring before the last '1' (the
\* whole input when it has no '1') is one of bc, BC, ltc, LTC, X, tb, TB,
\* tltc, TLTC, q, bcrt, BCRT as written; any other spelling, "Bc" and "tB"
\* included, takes the Base58 branch: the Bech32 decoder is not run on it, the
\* Base58 decoder is unless the input is longer than 50 characters, and a
\* failure is a Base58 error.
C18_ExactPrefix ==
  res.op = "from_str" =>
    IF TextPrefix(res.in) \in RecognisedPrefixes
    THEN res.decoders = <<"bech32::decode">>
    ELSE /\ res.decoders = IF TextLen(res.in) > 50 THEN <<>> ELSE <<"base58::from_check">>
         /\ ~res.out.ok => res.out.err.e = "Base58"

\* A text that starts with "Bc1" went to the Base58 decoder and came back
\* with a Base58 error.
C18_Witness ==
  /\ res.op = "from_str"
  /\ res.in.form = "bech32"
  /\ res.in.hrp = "Bc"
  /\ res.decoders = <<"base58::from_check">>
  /\ res.out = Err(Base58Error(Base58Decode))

\* C19: from_str runs one branch only, chosen by the prefix.  With a prefix
\* of the match the Bech32 decoder is the only decoder run, a failure of it
\* is the result, and no failure is a Base58 error; with any other prefix the
\* Bech32 decoder is not run and every failure is a Base58 error.
C19_OneBranch ==
  res.op = "from_str" =>
    LET called == {res.decoders[i] : i \in DOMAIN res.decoders}
    IN IF TextPrefix(res.in) \in RecognisedPrefixes
       THEN /\ called = {"bech32::decode"}
            /\ ~bech32_decode(res.in).ok => res.out = bech32_decode(res.in)
            /\ ~res.out.ok => res.out.err.e # "Base58"
       ELSE /\ "bech32::decode" \notin called
            /\ ~res.out.ok => res.out.err.e = "Base58"

\* A text with the prefix "bc" and a wrong checksum came back with the
\* decoder's error, and the Base58 decoder was not run.
C19_Witness ==
  /\ res.op = "from_str"
  /\ res.in.form = "bech32"
  /\ res.in.hrp = "bc"
  /\ res.in.checksum = "bad"
  /\ res.decoders = <<"bech32::decode">>
  /\ res.out = Err(Bech32Error("InvalidChecksum"))

\* The checks of the Bech32 branch that a text fails, numbered in the order
\* of C20: 1 the decoder, 2 empty data, 3 the witness version of the first
\* symbol, 4 the repack of the other symbols to bytes, 5 the program length,
\* 6 the V0 program length, 7 the checksum variant.  The later checks are
\* taken on what the earlier ones would hand them when they pass.
FailedChecks(s) ==
  LET decoded == bech32_decode(s).ok
      symbols == s.data # <<>>
      version == symbols /\ s.data[1] <= 16
      repacked == symbols /\ from_base32(Tail(s.data)).ok
      len == ProgramLen(s)
  IN (IF decoded THEN {} ELSE {1})
     \cup (IF symbols THEN {} ELSE {2})
     \cup (IF symbols /\ ~version THEN {3} ELSE {})
     \cup (IF symbols /\ ~repacked THEN {4} ELSE {})
     \cup (IF repacked /\ len \notin 2..40 THEN {5} ELSE {})
     \cup (IF repacked /\ version /\ s.data[1] = 0 /\ len \notin {20, 32} THEN {6} ELSE {})
     \cup (IF version /\ s.checksum # RequiredVariant(s.data[1]) THEN {7} ELSE {})

\* The error a failed check reports.
ErrorOfCheck(s, check) ==
  CASE check = 1 -> bech32_decode(s).err
    [] check = 2 -> EmptyBech32Payload
    [] check = 3 -> InvalidWitnessVersion(s.data[1])
    [] check = 4 -> from_base32(Tail(s.data)).err
    [] check = 5 -> InvalidWitnessProgramLength(ProgramLen(s))
    [] check = 6 -> InvalidSegwitV0ProgramLength(ProgramLen(s))
    [] check = 7 -> InvalidBech32Variant(RequiredVariant(s.data[1]), s.checksum)

FirstOf(checks) == CHOOSE c \in checks : \A other \in checks : c <= other

\* C20: in the Bech32 branch the error is the one of the first check the
\* text fails, in the order decoder, empty data, witness version, repack,
\* program length, V0 program length, checksum variant; a text that fails
\* none of them parses.  The decoder's and the repack's errors are Bech32
\* errors.
C20_CheckOrder ==
  (res.op = "from_str" /\ res.in.form = "bech32" /\ res.in.hrp \in RecognisedPrefixes) =>
    LET failed == FailedChecks(res.in)
    IN /\ res.out.ok <=> failed = {}
       /\ failed # {} =>
            /\ res.out = Err(ErrorOfCheck(res.in, FirstOf(failed)))
            /\ FirstOf(failed) \in {1, 4} => res.out.err.e = "Bech32"

\* A V0 program of 10 bytes under a Bech32m checksum failed the V0 length
\* check and the variant check, and the error is that of the length.
C20_Witness ==
  /\ res.op = "from_str"
  /\ res.in.form = "bech32"
  /\ res.in.hrp = "bc"
  /\ FailedChecks(res.in) = {6, 7}
  /\ res.in.checksum = "Bech32m"
  /\ res.out = Err(InvalidSegwitV0ProgramLength(10))

\* The Bitcoin-chain defaults of a network.
DefaultPubkeyByte(network) ==
  IF network = "Bitcoin" THEN BITCOIN_PUBKEY_ADDRESS_PREFIX_MAIN
  ELSE BITCOIN_PUBKEY_ADDRESS_PREFIX_TEST

DefaultScriptByte(network) ==
  IF network = "Bitcoin" THEN BITCOIN_SCRIPT_ADDRESS_PREFIX_MAIN
  ELSE BITCOIN_SCRIPT_ADDRESS_PREFIX_TEST

DefaultHrp(network) ==
  CASE network = "Bitcoin" -> "bc"
    [] network \in {"Testnet", "Signet"} -> "tb"
    [] network = "Regtest" -> "bcrt"

\* The text C21 describes for an address.
RenderingOfC21(a, alternate) ==
  CASE a.payload.kind = "PubkeyHash" ->
         base58_check_encode(<<IF a.prefix.kind = "Pubkey" THEN a.prefix.b
                               ELSE DefaultPubkeyByte(a.network)>> \o a.payload.hash)
    [] a.payload.kind = "ScriptHash" ->
         base58_check_encode(<<IF a.prefix.kind = "Script" THEN a.prefix.b
                               ELSE DefaultScriptByte(a.network)>> \o a.payload.hash)
    [] a.payload.kind = "WitnessProgram" ->
         Bech32Writer_write(IF a.prefix.kind = "Segwit" THEN a.prefix.hrp
                            ELSE DefaultHrp(a.network),
                            RequiredVariant(a.payload.version),
                            <<a.payload.version>> \o to_base32(a.payload.program), alternate)

\* C21: the text of an address carries the byte or the human-readable part
\* of its stored prefix when the variant of the prefix is the one of the
\* payload kind, and otherwise the Bitcoin default of the stored network:
\* the mainnet bytes for Bitcoin, the testnet bytes for Testnet, Signet and
\* Regtest, and "bc", "tb", "tb", "bcrt".
C21_StoredPrefixOrDefault ==
  /\ res.op = "fmt_literal" => res.out = RenderingOfC21(res.in.address, res.in.alternate)
  /\ res.op = "fmt" => res.out = RenderingOfC21(made.address, res.in)

\* A script hash on Signet written with a Pubkey prefix was rendered with
\* the script byte of Bitcoin's testnet.
C21_Witness ==
  /\ res.op = "fmt_literal"
  /\ res.in.address.payload.kind = "ScriptHash"
  /\ res.in.address.network = "Signet"
  /\ res.in.address.prefix.kind = "Pubkey"
  /\ res.out = base58_check_encode(<<BITCOIN_SCRIPT_ADDRESS_PREFIX_TEST>> \o res.in.address.payload.hash)

\* What C22 says of an opcode.
VersionOfOpcode(opcode) ==
  IF opcode = 0 THEN Ok(0)
  ELSE IF \E k \in 1..16 : opcode = OP_PUSHNUM_1 + (k - 1)
       THEN Ok(CHOOSE k \in 1..16 : opcode = OP_PUSHNUM_1 + (k - 1))
       ELSE Err(MalformedWitnessVersion)

\* C22: the conversion of an opcode gives V0 for the opcode byte 0, Vk for
\* OP_PUSHNUM_k with k in 1..16, and MalformedWitnessVersion, never
\* InvalidWitnessVersion, for every other opcode.
C22_TryFromOpcode ==
  res.op = "try_from_opcode" =>
    /\ res.out = VersionOfOpcode(res.in)
    /\ ~res.out.ok => res.out.err.e # "InvalidWitnessVersion"

\* OP_PUSHNUM_16 was converted to V16.
C22_Witness == res.op = "try_from_opcode" /\ res.in = OP_PUSHNUM_16 /\ res.out = Ok(16)

VersionByteTable(kind, mainnet, chain) ==
  CASE kind = "PubkeyHash" /\ chain = "Bitcoin" ->
         IF mainnet THEN BITCOIN_PUBKEY_ADDRESS_PREFIX_MAIN ELSE BITCOIN_PUBKEY_ADDRESS_PREFIX_TEST
    [] kind = "PubkeyHash" /\ chain = "Dogecoin" ->
         IF mainnet THEN DOGECOIN_PUBKEY_ADDRESS_PREFIX_MAIN ELSE DOGECOIN_PUBKEY_ADDRESS_PREFIX_TEST
    [] kind = "PubkeyHash" /\ chain = "Litecoin" ->
         IF mainnet THEN LITECOIN_PUBKEY_ADDRESS_PREFIX_MAIN ELSE LITECOIN_PUBKEY_ADDRESS_PREFIX_TEST
    [] kind = "PubkeyHash" /\ chain = "Stratis" ->
         IF mainnet THEN STRATIS_PUBKEY_ADDRESS_PREFIX_MAIN ELSE STRATIS_PUBKEY_ADDRESS_PREFIX_TEST
    [] kind = "ScriptHash" /\ chain = "Bitcoin" ->
         IF mainnet THEN BITCOIN_SCRIPT_ADDRESS_PREFIX_MAIN ELSE BITCOIN_SCRIPT_ADDRESS_PREFIX_TEST
    [] kind = "ScriptHash" /\ chain = "Dogecoin" ->
         IF mainnet THEN DOGECOIN_SCRIPT_ADDRESS_PREFIX_MAIN ELSE DOGECOIN_SCRIPT_ADDRESS_PREFIX_TEST
    [] kind = "ScriptHash" /\ chain = "Litecoin" ->
         IF mainnet THEN LITECOIN_SCRIPT_ADDRESS_PREFIX_MAIN ELSE LITECOIN_SCRIPT_ADDRESS_PREFIX_TEST
    [] kind = "ScriptHash" /\ chain = "Stratis" ->
         IF mainnet THEN STRATIS_SCRIPT_ADDRESS_PREFIX_MAIN ELSE STRATIS_SCRIPT_ADDRESS_PREFIX_TEST

\* C24: the prefix of an address made with a PubkeyHash or ScriptHash
\* payload is the byte of a table keyed by the payload kind, by whether the
\* network is Bitcoin, and by the coin; Testnet, Signet and Regtest share a
\* byte and the hash has no part in it.
C24_HashPrefixTable ==
  (made # NoAddr /\ ~IsWitnessPayload(made.address.payload)) =>
    LET a == made.address
    IN /\ a.prefix.kind = (IF a.payload.kind = "PubkeyHash" THEN "Pubkey" ELSE "Script")
       /\ a.prefix.b = VersionByteTable(a.payload.kind, a.network = "Bitcoin", made.chain)

\* A P2PKH address made for Litecoin on Regtest holds Litecoin's testnet
\* byte.
C24_Witness ==
  /\ made # NoAddr
  /\ made.by = "p2pkh"
  /\ made.chain = "Litecoin"
  /\ made.address.network = "Regtest"
  /\ made.address.prefix = Prefix_pubkey(LITECOIN_PUBKEY_ADDRESS_PREFIX_TEST)

\* The prefix variant that goes with a payload kind.
VariantOfKind(kind) ==
  CASE kind = "PubkeyHash" -> "Pubkey"
    [] kind = "ScriptHash" -> "Script"
    [] kind = "WitnessProgram" -> "Segwit"

PrefixMatchesPayload(address) == address.prefix.kind = VariantOfKind(address.payload.kind)

\* C25: an address returned by a named constructor, by Address::from_script
\* or by from_str has the prefix variant of its payload kind, and one parsed
\* from a Base58 text holds the version byte that the text decodes to.
C25_PrefixMatchesPayload ==
  /\ (made # NoAddr /\ made.by \in NamedConstructors) => PrefixMatchesPayload(made.address)
  /\ (res.op = "from_str" /\ res.out.ok) =>
       /\ PrefixMatchesPayload(res.out.val)
       /\ ~IsWitnessPayload(res.out.val.payload) =>
            /\ base58_from_check(res.in).ok
            /\ res.out.val.prefix.b = base58_from_check(res.in).val[1]

\* A Base58 text of Litecoin's mainnet script byte was parsed to a ScriptHash
\* address that holds that byte in a Script prefix.
C25_Witness ==
  /\ res.op = "from_str"
  /\ res.out.ok
  /\ res.in.form = "base58"
  /\ res.in.check.val[1] = LITECOIN_SCRIPT_ADDRESS_PREFIX_MAIN
  /\ res.out.val.payload.kind = "ScriptHash"
  /\ res.out.val.prefix = Prefix_script(LITECOIN_SCRIPT_ADDRESS_PREFIX_MAIN)

\* A witness payload with a program of 2 to 40 bytes that for V0 has 20 or
\* 32 bytes; other payloads have no program.
WellFormedProgram(payload) ==
  IsWitnessPayload(payload) =>
    /\ Len(payload.program) >= 2
    /\ Len(payload.program) <= 40
    /\ payload.version = 0 => Len(payload.program) \in {20, 32}

\* C26: a WitnessProgram payload returned by Payload::from_script, by the
\* constructors p2wpkh, p2wsh, p2tr and p2tr_tweaked, or by from_str has a
\* program of 2 to 40 bytes, of 20 or 32 bytes when its version is V0.
C26_WellFormedProgram ==
  /\ (made # NoAddr /\ made.by \in NamedConstructors) => WellFormedProgram(made.address.payload)
  /\ (res.op = "payload_from_script" /\ res.out.ok) => WellFormedProgram(res.out.val)
  /\ (res.op = "from_str" /\ res.out.ok) => WellFormedProgram(res.out.val.payload)

\* A V16 program of 40 bytes was parsed from text.
C26_Witness ==
  /\ res.op = "from_str"
  /\ res.out.ok
  /\ IsWitnessPayload(res.out.val.payload)
  /\ res.out.val.payload.version = 16
  /\ Len(res.out.val.payload.program) = 40

\* C27: the text of a witness address made for a (network, coin) pair that
\* has a human-readable part ("bc", "tb", "bcrt", "ltc", "tltc", "STRAX",
\* "TSTRAX") starts with a prefix the parser knows, and parses to the same
\* payload and prefix on a network for which the address is valid.
C27_DefinedPrefixesParse ==
  (RoundTripped /\ IsWitnessPayload(made.address.payload)
     /\ ~PlaceholderPair(made.address.network, made.chain)) =>
    /\ TextPrefix(res.in) \in RecognisedPrefixes
    /\ res.out.ok
    /\ res.out.val.payload = made.address.payload
    /\ res.out.val.prefix = made.address.prefix
    /\ Address_is_valid_for_network(made.address, res.out.val.network)

\* The version bytes of the supported coins that stand for a key hash; the
\* other version bytes of MainVersionBytes and TestVersionBytes stand for a
\* script hash.
PubkeyVersionBytes ==
  {BITCOIN_PUBKEY_ADDRESS_PREFIX_MAIN, DOGECOIN_PUBKEY_ADDRESS_PREFIX_MAIN,
   LITECOIN_PUBKEY_ADDRESS_PREFIX_MAIN, STRATIS_PUBKEY_ADDRESS_PREFIX_MAIN,
   BITCOIN_PUBKEY_ADDRESS_PREFIX_TEST, DOGECOIN_PUBKEY_ADDRESS_PREFIX_TEST,
   LITECOIN_PUBKEY_ADDRESS_PREFIX_TEST, STRATIS_PUBKEY_ADDRESS_PREFIX_TEST}

\* C28: a text that is the Base58Check encoding of a supported version byte
\* and 20 more bytes parses to the PubkeyHash or ScriptHash payload of
\* those 20 bytes, whatever characters the text has before its last '1'.
C28_Base58CheckParses ==
  (/\ res.op = "from_str"
   /\ res.in.form = "base58"
   /\ res.in.check.ok
   /\ Len(res.in.check.val) = 21
   /\ res.in.check.val[1] \in MainVersionBytes \cup TestVersionBytes) =>
    /\ res.out.ok
    /\ res.out.val.payload =
         (IF res.in.check.val[1] \in PubkeyVersionBytes
          THEN PubkeyHash(Tail(res.in.check.val))
          ELSE ScriptHash(Tail(res.in.check.val)))

\* A Bech32 text converted to lower case.
LowerCased(s) == Bech32Text(ToLower(s.hrp), s.data, s.checksum, FALSE)

\* C29: the text of an address parsed from s is s when s is a Base58 text
\* and s in lower case when s is a Bech32 text; the address holds the
\* version byte or the human-readable part of s, not a default of its
\* network.
C29_RenderParsed ==
  res.op = "fmt_parsed" =>
    IF res.in.s.form = "base58"
    THEN /\ res.out = res.in.s
         /\ res.in.address.prefix.b = res.in.s.check.val[1]
    ELSE /\ res.out = LowerCased(res.in.s)
         /\ res.in.address.prefix.hrp = ToLower(res.in.s.hrp)

\* An upper-case text of prefix "BC" was parsed and rendered in lower case.
C29_Witness ==
  /\ res.op = "fmt_parsed"
  /\ res.in.s.form = "bech32"
  /\ res.in.s.hrp = "BC"
  /\ res.in.s.upper
  /\ res.out.hrp = "bc"
  /\ ~res.out.upper
  /\ res.out.data = res.in.s.data

\* C30: the script_pubkey() of the payload that Payload::from_script
\* returns for a script is that script, byte for byte.
C30_ScriptPubkeyInverts ==
  (res.op = "from_script_script_pubkey" /\ res.out.ok) => res.out.val.script_pubkey = res.in

\* A P2PKH script written out byte by byte was classified and rebuilt.
C30_Witness ==
  /\ res.op = "from_script_script_pubkey"
  /\ res.out.ok
  /\ res.in = <<OP_DUP, OP_HASH160, 20>> \o TestHash \o <<OP_EQUALVERIFY, OP_CHECKSIG>>
  /\ res.out.val.payload = PubkeyHash(TestHash)
  /\ res.out.val.script_pubkey = res.in

====
